---- MODULE Spec2Model ----
(***************************************************************************)
(* Model of the BOB-ROV motor controller firmware.                         *)
(*                                                                         *)
(*   core1: dshot_telemetry_task  (UART ingest, sole writer of the relay)  *)
(*   core0: spi_task              (host transport, sole reader of relay,   *)
(*                                 fan-out to the 8 sequencer channels)    *)
(*   TELEMETRY_BUFFERS: DoubleBuffer (two 10-byte slots + atomic index)    *)
(*                                                                         *)
(* Bytes are 0..255, 16-bit words are 0..65535, sequences are 1-indexed    *)
(* (Rust index i is TLA+ index i+1); the two slots are indexed 0 and 1.    *)
(***************************************************************************)
EXTENDS Integers, Sequences, FiniteSets, TLC

(***************************************************************************)
(* Program constants and model bounds                                      *)
(***************************************************************************)
SYNC_THRESHOLD == 3

BUF_LEN == 10

NUM_CHANNELS == 8

\* number of distinct valid telemetry samples the ESC may send
NumSamples == 2

\* largest number of sequencer channels whose push times out in one fan-out
MaxTimeouts == 1

\* frames a sequencer's TX FIFO holds before a push has to wait
QueueDepth == 2

\* largest throttle handed to Frame::from_throttle
MaxThrottle == 2047

\* timer ticks in the 500 us a push waits for its sequencer
PushTimeoutTicks == 2

\* frames the driver writes to one sequencer
MaxFrames == 2

\* bits in the ISR from which PUSH IfFull pushes: the 21 bits sampled
PushThreshold == 21

Channels == 1..NUM_CHANNELS

NoFrame == -1

NoSample == <<>>

\* Option<u16>: NoValue stands for None
NoValue == -1

\* capacity of the telemetry channel between the eRPM reader and the driver
ChannelDepth == 3

\* Option<V> of an eRPM frame: NoERpmFrame stands for None
NoERpmFrame == [none |-> TRUE]

\* the driver's read has not returned
NoResult == [pending |-> TRUE]

\* accessors and compute_rpm not called
NotComputed == [called |-> FALSE]

\* Option<NonZeroU32>: NoPeriod stands for None
NoPeriod == 0

\* Option<TelemetryFrame>: NoTelemetry stands for None
NoTelemetry == [none |-> TRUE]

\* speed() and telemetry_enabled() not called yet
NotDecoded == [called |-> FALSE]

(***************************************************************************)
(* Bit arithmetic on naturals                                              *)
(***************************************************************************)
\* the element of a one-element set: binds an operand to its value once
Only(S) == CHOOSE r \in S : TRUE

RECURSIVE XorBits(_, _)
XorBits(a, b) ==
    IF a = 0 THEN b
    ELSE IF b = 0 THEN a
    ELSE (((a % 2) + (b % 2)) % 2) + 2 * XorBits(a \div 2, b \div 2)

RECURSIVE OrBits(_, _)
OrBits(a, b) ==
    IF a = 0 THEN b
    ELSE IF b = 0 THEN a
    ELSE (IF (a % 2) = 1 \/ (b % 2) = 1 THEN 1 ELSE 0) + 2 * OrBits(a \div 2, b \div 2)

\* a ^ b
BitXor(a, b) == Only({XorBits(x, y) : x \in {a}, y \in {b}})

\* a | b
BitOr(a, b) == Only({OrBits(x, y) : x \in {a}, y \in {b}})

Pow2(n) == CHOOSE p \in {1, 2, 4, 8, 16, 32, 64, 128, 256, 512, 1024, 2048, 4096} : p = 2^n

Shr(v, n) == v \div Pow2(n)

\* u16 shift left: bits shifted past bit 15 are dropped
Shl16(v, n) == (v * Pow2(n)) % 65536

\* v & 0x0F
Low4(v) == v % 16

\* v & !0x0F
ClearLow4(v) == v - (v % 16)

(***************************************************************************)
(* rp2040-dshot encoder                                                    *)
(***************************************************************************)
compute_standard_crc(value) ==
    Low4(BitXor(BitXor(value, Shr(value, 4)), Shr(value, 8)))

construct_frame(data, request_telemetry) ==
    LET shifted == Shl16(data, 5)
        flagged == IF request_telemetry THEN BitOr(shifted, 16) ELSE shifted
    IN  Only({BitOr(ClearLow4(d), compute_standard_crc(d)) : d \in {flagged}})

\* from_throttle without its range test
from_throttle_Unchecked(throttle, request_telemetry) ==
    construct_frame(throttle + 48, request_telemetry)

\* Option<Frame>: NoFrame stands for None
from_throttle(throttle, request_telemetry) ==
    IF throttle >= 2000 THEN NoFrame
    ELSE construct_frame(throttle + 48, request_telemetry)

from_command(command, request_telemetry) ==
    construct_frame(command, request_telemetry)

\* !x of a u16
Not16(x) == 65535 - x

compute_inverted_crc(value) ==
    Low4(Not16(BitXor(BitXor(value, Shr(value, 4)), Shr(value, 8))))

\* Frame::<P>::compute_crc; is_inverted stands for P::IS_INVERTED
Frame_compute_crc(is_inverted, data) ==
    IF is_inverted THEN compute_inverted_crc(data)
    ELSE compute_standard_crc(data)

\* Frame::<P>::construct_frame
Frame_construct_frame(is_inverted, data, request_telemetry) ==
    LET shifted == Shl16(data, 5)
        flagged == IF request_telemetry THEN BitOr(shifted, 16) ELSE shifted
    IN  Only({BitOr(ClearLow4(d), Frame_compute_crc(is_inverted, d)) : d \in {flagged}})

\* Frame::<P>::from_throttle without its range test; throttle + 48 wraps
Frame_from_throttle_Unchecked(is_inverted, throttle, request_telemetry) ==
    Frame_construct_frame(is_inverted, (throttle + 48) % 65536, request_telemetry)

\* Frame::<P>::from_throttle
Frame_from_throttle(is_inverted, throttle, request_telemetry) ==
    IF throttle >= 2000 THEN NoFrame
    ELSE Frame_construct_frame(is_inverted, throttle + 48, request_telemetry)

\* Frame::<P>::from_command
Frame_from_command(is_inverted, command, request_telemetry) ==
    Frame_construct_frame(is_inverted, command, request_telemetry)

\* Option<u16>: NoSpeed stands for None
NoSpeed == -1

\* speed() without the offset of the throttle range
speed_Raw(inner) == Shr(inner, 5)

\* Frame::speed: (inner >> 5).checked_sub(48)
speed(inner) ==
    IF Shr(inner, 5) >= 48 THEN Shr(inner, 5) - 48 ELSE NoSpeed

\* Frame::telemetry_enabled: (inner & 0x10) != 0
telemetry_enabled(inner) == Shr(inner, 4) % 2 = 1

\* the top nibble of the frame, which is not its checksum
Frame_crc_Top(inner) == Shr(inner, 12)

\* Frame::crc
Frame_crc(inner) == Low4(inner)

\* discriminants of enum Command; Command::try_from(u8) is Ok exactly on these
CommandCodes == (0..14) \cup (20..35) \cup (42..47)

IsCommand(byte) == byte \in CommandCodes

\* TelemetryFrame::compute_crc, one pass of the inner loop
Crc8Step(crc) ==
    IF crc >= 128 THEN BitXor((crc * 2) % 256, 7) ELSE (crc * 2) % 256

\* n passes of the inner loop
RECURSIVE Crc8Shift(_, _)
Crc8Shift(crc, n) ==
    IF n = 0 THEN crc
    ELSE Only({Crc8Shift(Crc8Step(c), n - 1) : c \in {crc}})

\* the outer loop from byte i on
RECURSIVE Crc8Fold(_, _, _)
Crc8Fold(crc, data, i) ==
    IF i > Len(data) THEN crc
    ELSE Crc8Fold(Crc8Shift(BitXor(crc, data[i]), 8), data, i + 1)

telemetry_compute_crc(data) == Crc8Fold(0, data, 1)

(***************************************************************************)
(* Wire helpers                                                            *)
(***************************************************************************)
\* a u16 from two bytes, most significant first
from_be_bytes(b) == 256 * b[1] + b[2]

\* u16::from_le_bytes
from_le_bytes(b) == b[1] + 256 * b[2]

\* u16::to_le_bytes
to_le_bytes(v) == <<v % 256, v \div 256>>

ZeroBuf == [i \in 1..BUF_LEN |-> 0]

\* valid 10-byte serial telemetry frames (9 data bytes + CRC-8)
SampleData(s) == [i \in 1..(BUF_LEN - 1) |-> (s * i) % 256]

Sample(s) == Append(SampleData(s), telemetry_compute_crc(SampleData(s)))

Samples == {Sample(s) : s \in 1..NumSamples}

\* a frame whose checksum byte is wrong
CorruptFrame == Append(SampleData(1), (telemetry_compute_crc(SampleData(1)) + 1) % 256)

UartFrames == Samples \cup {CorruptFrame}

\* the frames that pass `internal_buf[9] != computed_crc` in the ingest loop
CrcValidFrames ==
    {f \in UartFrames : f[BUF_LEN] = telemetry_compute_crc(SubSeq(f, 1, BUF_LEN - 1))}

\* serial traffic while the transport is examined
TransportUartFrames == {Sample(1), CorruptFrame}

\* host words: frames built by the encoder, and one word with a bad checksum
EncodedHostFrames ==
    { from_command(0, FALSE), from_command(0, TRUE),
      from_throttle(977, TRUE), from_throttle(1028, TRUE) }

BadHostWord == from_command(0, FALSE) + 1

HostFrames == EncodedHostFrames \cup {BadHostWord}

\* host words that reach write_dshot: two on the command path, two on the
\* throttle path
FanoutHostFrames ==
    { from_command(0, FALSE), from_command(1, FALSE),
      from_throttle(80, TRUE), from_throttle(977, TRUE) }

\* the relay reader only needs some host traffic
IdleHostFrames == { from_command(0, FALSE) }

(***************************************************************************)
(* State                                                                   *)
(***************************************************************************)
VARIABLES
    buffers,            \* TELEMETRY_BUFFERS.buffers : [0..1 -> 10 bytes]
    current,            \* TELEMETRY_BUFFERS.current
    t_pc,               \* dshot_telemetry_task position
    internal_buf,       \* dshot_telemetry_task internal_buf
    crc_state,          \* dshot_telemetry_task crc_state
    w_current,          \* DoubleBuffer::write local `current`
    w_current_buf,      \* DoubleBuffer::write local `current_buf`
    w_dest,             \* shared slots copy_from_slice in write stores into
    w_k,                \* bytes copied so far by write
    r_pc,               \* DoubleBuffer::read position
    r_current,          \* DoubleBuffer::read local `current`
    r_buffers,          \* DoubleBuffer::read local `buffers`
    r_k,                \* bytes copied so far by read
    pc,                 \* spi_task position
    transfer_buffer,    \* spi_task transfer_buffer
    telemetry_buffer,   \* spi_task telemetry_buffer
    telemetry_byte_idx, \* spi_task telemetry_byte_idx
    synced_count,       \* spi_task synced_count
    rx_pending,         \* host bytes on the wire not yet taken by spi_task
    tx_word,            \* the two telemetry bytes shifted out by the last exchange
    tx_pushed,          \* frame pushed on each sequencer channel by the last exchange
    tx_timeouts,        \* channels whose push timed out in the last exchange
    overflow_checks,    \* whether the build panics on integer overflow
    last_written,       \* sample passed to the last completed write
    r_quiet,            \* no step of write since the last read began
    match_run,          \* consecutive matching windows seen while seeking
    seek_matched,       \* outcome of the last seeking comparison
    forwarded,          \* whether the last exchange called write_dshot
    i2c_pc,             \* i2c_task position
    write_buffer,       \* i2c_task write_buffer
    d_queue,            \* one driver: frames waiting in its sequencer's TX FIFO
    d_before,           \* one driver: the TX FIFO before the last call
    d_call,             \* one driver: the last call and its arguments
    d_result,           \* one driver: what the last call returned
    uart_frame,         \* serial line: the ESC frame being received
    uart_skew,          \* serial line: bytes of uart_frame already taken
    u_iter,             \* ingest loop: what its last iteration did
    fr_in,              \* Frame: the constructor called and its arguments
    fr_called,          \* Frame: whether the constructor has returned
    fr_frame,           \* Frame: what the constructor returned
    fr_decoded,         \* Frame: what speed() and telemetry_enabled() returned
    hw_pc,              \* synced loop of spi_task: the hardware wait it is in
    hw_channel,         \* fan-out: the sequencer channel being written
    hw_stalled,         \* fan-out: channels whose sequencer takes no frame
    hw_waited,          \* fan-out: timer ticks spent in the current push
    hw_turn,            \* parity of the iterations spi_task has completed
    hw_uart_turn,       \* parity of the iterations the ingest loop has completed
    tf_in,              \* TelemetryFrame: the 10 bytes handed to from_bytes
    tf_called,          \* TelemetryFrame: whether from_bytes has returned
    tf_frame,           \* TelemetryFrame: what from_bytes returned
    g_value,            \* eRPM reader: the word pulled from the sequencer's RX FIFO
    g_gcr,              \* eRPM reader: value ^ (value >> 1)
    g_event,            \* eRPM reader: how its last iteration ended
    g_data,             \* eRPM reader: what decode_gcr returned
    g_channel,          \* eRPM reader: values waiting in the telemetry channel
    er_in,              \* eRPM frame: the variant asked for and where the frame comes from
    er_called,          \* eRPM frame: whether the driver's read has returned
    er_result,          \* eRPM frame: the frame or the error returned
    er_computed,        \* eRPM frame: what its accessors and compute_rpm returned
    tm_in,              \* timing tables: the constructor called and its arguments
    tm_called,          \* timing tables: whether the call has returned
    tm_result,          \* timing tables: the table returned, or the panic
    tm_rates,           \* timing tables: the two bit rates of the speed
    sm_cfg,             \* sequencer: the program loaded and the driver in front of it
    sm,                 \* sequencer: program counter, registers and pin
    sm_tx,              \* sequencer: words waiting in its TX FIFO
    sm_rx,              \* sequencer: words waiting in its RX FIFO
    sm_line,            \* sequencer: level the ESC drives on the pin
    sm_obs              \* sequencer: what has been seen on the pin and when

vars == << buffers, current, t_pc, internal_buf, crc_state, w_current,
           w_current_buf, w_dest, w_k, r_pc, r_current, r_buffers, r_k,
           pc, transfer_buffer, telemetry_buffer, telemetry_byte_idx,
           synced_count, rx_pending, tx_word, tx_pushed, overflow_checks,
           last_written, r_quiet, match_run, seek_matched, forwarded,
           tx_timeouts, i2c_pc, write_buffer, d_queue, d_before, d_call,
           d_result, uart_frame, uart_skew, u_iter, fr_in, fr_called,
           fr_frame, fr_decoded, hw_pc, hw_channel, hw_stalled, hw_waited, hw_turn,
           hw_uart_turn, tf_in, tf_called, tf_frame, g_value, g_gcr,
           g_event, g_data, g_channel, er_in, er_called, er_result,
           er_computed, tm_in, tm_called, tm_result, tm_rates, sm_cfg, sm,
           sm_tx, sm_rx, sm_line, sm_obs >>

relayVars == << buffers, current >>

writerVars == << t_pc, internal_buf, crc_state, w_current, w_current_buf,
                 w_dest, w_k, last_written >>

readerVars == << r_pc, r_current, r_buffers, r_k >>

spiVars == << pc, transfer_buffer, telemetry_byte_idx, synced_count,
              rx_pending, tx_word, tx_pushed, tx_timeouts, match_run,
              seek_matched, forwarded >>

i2cVars == << i2c_pc, write_buffer >>

\* state of the tasks and components other than spi_task, dshot_telemetry_task
\* and the relay
driverVars == << d_queue, d_before, d_call, d_result >>

uartVars == << uart_frame, uart_skew, u_iter >>

frameVars == << fr_in, fr_called, fr_frame, fr_decoded >>

hwVars == << hw_pc, hw_channel, hw_stalled, hw_waited, hw_turn,
            hw_uart_turn >>

telemVars == << tf_in, tf_called, tf_frame >>

\* the decoders of rp2040-dshot
gcrVars == << g_value, g_gcr, g_event, g_data, g_channel >>

erpmVars == << er_in, er_called, er_result, er_computed >>

timingVars == << tm_in, tm_called, tm_result, tm_rates >>

pioVars == << sm_cfg, sm, sm_tx, sm_rx, sm_line, sm_obs >>

seqVars == << timingVars, pioVars >>

laterVars == << telemVars, gcrVars, erpmVars, seqVars >>

otherVars == << i2cVars, driverVars, uartVars, frameVars, hwVars, laterVars >>

NothingPushed == [ch \in Channels |-> NoFrame]

\* the firmware after construction
FirmwareInit ==
    /\ buffers = [s \in 0..1 |-> ZeroBuf]
    /\ current = 0
    /\ t_pc = "uart"
    /\ internal_buf = ZeroBuf
    /\ crc_state = "Valid"
    /\ w_current = 0
    /\ w_current_buf = ZeroBuf
    /\ w_dest = {}
    /\ w_k = 0
    /\ r_pc = "load"
    /\ r_current = 0
    /\ r_buffers = [s \in 0..1 |-> ZeroBuf]
    /\ r_k = 0
    /\ pc = "init"
    /\ transfer_buffer = <<0, 0>>
    /\ telemetry_buffer = ZeroBuf
    /\ telemetry_byte_idx = 0
    /\ synced_count = 0
    /\ rx_pending \in {<<>>} \cup { <<to_le_bytes(f)[2]>> : f \in HostFrames }
    /\ tx_word = <<0, 0>>
    /\ tx_pushed = NothingPushed
    /\ tx_timeouts = {}
    /\ overflow_checks \in BOOLEAN
    /\ last_written = NoSample
    /\ r_quiet = FALSE
    /\ match_run = 0
    /\ seek_matched = FALSE
    /\ forwarded = "none"
    /\ i2c_pc = "listen"
    /\ write_buffer = <<0, 0>>
    /\ d_queue = <<>>
    /\ d_before = <<>>
    /\ d_call = [fn |-> "new"]
    /\ d_result = <<"Ok">>
    /\ uart_frame = Sample(1)
    /\ uart_skew = 0
    /\ u_iter = [outcome |-> "none", drop |-> "none", consumed |-> 0]
    /\ hw_pc = "transfer"
    /\ hw_channel = 1
    /\ hw_stalled = {}
    /\ hw_waited = 0
    /\ hw_turn = 0
    /\ hw_uart_turn = 0

\* no Frame built
FrameIdle ==
    /\ fr_in = [fn |-> "none"]
    /\ fr_called = FALSE
    /\ fr_frame = NoFrame
    /\ fr_decoded = NotDecoded

\* from_bytes not called
TelemetryIdle ==
    /\ tf_in = [origin |-> "none"]
    /\ tf_called = FALSE
    /\ tf_frame = NoTelemetry

\* none of the decoders called
\* the eRPM reader before its first capture
GcrIdle ==
    /\ g_value = 0
    /\ g_gcr = 0
    /\ g_event = "none"
    /\ g_data = NoValue
    /\ g_channel = <<>>

\* no eRPM frame read
ERpmIdle ==
    /\ er_in = [kind |-> "none"]
    /\ er_called = FALSE
    /\ er_result = NoResult
    /\ er_computed = NotComputed

\* no timing table asked for
TimingIdle ==
    /\ tm_in = [fn |-> "none"]
    /\ tm_called = FALSE
    /\ tm_result = NoResult
    /\ tm_rates = NoResult

\* no program loaded
SequencerIdle ==
    /\ sm_cfg = [kind |-> "none"]
    /\ sm = [pc |-> 0]
    /\ sm_tx = <<>>
    /\ sm_rx = <<>>
    /\ sm_line = 0
    /\ sm_obs = [none |-> TRUE]

DecodersIdle ==
    /\ TelemetryIdle
    /\ GcrIdle
    /\ ERpmIdle
    /\ TimingIdle
    /\ SequencerIdle

Init ==
    /\ FirmwareInit
    /\ FrameIdle
    /\ DecodersIdle

(***************************************************************************)
(* DoubleBuffer::write, called by dshot_telemetry_task on core1            *)
(***************************************************************************)
\* copy_from_slice storing into the shared slot it indexed
CopyDestination_Shared(cur) == {cur}

\* The shared slots `current_buf.copy_from_slice(data)` stores into.
\* `buffers` is a copy of the shared array and `current_buf` a copy of one of
\* its rows, so the destination is a local of write and no shared slot is
\* stored into.
CopyDestination(cur) == {}

\* the shared array after byte i of data has been written to dest
StoreByte(bufs, dest, i, byte) ==
    [s \in 0..1 |-> IF s \in dest THEN [bufs[s] EXCEPT ![i] = byte] ELSE bufs[s]]

\* one iteration of the ingest loop up to the call of write: a read error
\* and a checksum mismatch both start the next iteration
T_Read ==
    /\ t_pc = "uart"
    /\ \E f \in UartFrames, ok \in BOOLEAN :
         /\ internal_buf' = f
         /\ IF ~ok
            THEN /\ t_pc' = "uart"
                 /\ crc_state' = crc_state
            ELSE IF f \notin CrcValidFrames
            THEN /\ t_pc' = "uart"
                 /\ crc_state' = "Invalid"
            ELSE /\ t_pc' = "write"
                 /\ crc_state' = "Valid"
    /\ UNCHANGED << relayVars, readerVars, spiVars, w_current, w_current_buf,
                    w_dest, w_k, last_written, telemetry_buffer,
                    overflow_checks, r_quiet,
                    otherVars >>

\* write, step 1: load the index and take the local copies
W_Load ==
    /\ t_pc = "write"
    /\ w_current' = current
    /\ w_dest' = CopyDestination(current)
    /\ w_current_buf' = buffers[current]
    /\ w_k' = 0
    /\ t_pc' = "w_copy"
    /\ r_quiet' = FALSE
    /\ UNCHANGED << relayVars, readerVars, spiVars, internal_buf, crc_state,
                    last_written, telemetry_buffer, overflow_checks,
                    otherVars >>

\* write, step 2: copy_from_slice, one byte at a time
W_Copy ==
    /\ t_pc = "w_copy"
    /\ w_k < BUF_LEN
    /\ w_current_buf' = [w_current_buf EXCEPT ![w_k + 1] = internal_buf[w_k + 1]]
    /\ buffers' = StoreByte(buffers, w_dest, w_k + 1, internal_buf[w_k + 1])
    /\ w_k' = w_k + 1
    /\ r_quiet' = FALSE
    /\ UNCHANGED << current, readerVars, spiVars, t_pc, internal_buf,
                    crc_state, w_current, w_dest, last_written,
                    telemetry_buffer, overflow_checks,
                    otherVars >>

\* write, step 3: publish by storing 1 - current
W_Store ==
    /\ t_pc = "w_copy"
    /\ w_k = BUF_LEN
    /\ current' = 1 - w_current
    /\ last_written' = internal_buf
    /\ t_pc' = "uart"
    /\ w_current_buf' = ZeroBuf
    /\ w_k' = 0
    /\ r_quiet' = FALSE
    /\ UNCHANGED << buffers, readerVars, spiVars, internal_buf, crc_state,
                    w_current, w_dest, telemetry_buffer, overflow_checks,
                    otherVars >>

\* the shared array after the whole of copy_from_slice
StoreAll(bufs, dest, data) ==
    [s \in 0..1 |-> IF s \in dest THEN data ELSE bufs[s]]

\* one whole iteration of the ingest loop, write included, in one step
T_Ingest ==
    /\ t_pc = "uart"
    /\ \E f \in TransportUartFrames, ok \in BOOLEAN :
         /\ internal_buf' = f
         /\ IF ~ok
            THEN /\ crc_state' = crc_state
                 /\ UNCHANGED << relayVars, last_written, r_quiet >>
            ELSE IF f \notin CrcValidFrames
            THEN /\ crc_state' = "Invalid"
                 /\ UNCHANGED << relayVars, last_written, r_quiet >>
            ELSE /\ crc_state' = "Valid"
                 /\ buffers' = StoreAll(buffers, CopyDestination(current), f)
                 /\ current' = 1 - current
                 /\ last_written' = f
                 /\ r_quiet' = FALSE
    /\ UNCHANGED << readerVars, spiVars, t_pc, w_current, w_current_buf,
                    w_dest, w_k, telemetry_buffer, overflow_checks,
                    otherVars >>

(***************************************************************************)
(* dshot_telemetry_task of core1.rs, byte by byte.  T_Read and T_Ingest    *)
(* above take whole frames from the line; here the line is a stream of     *)
(* 10-byte ESC frames that the task may read out of step.                  *)
(***************************************************************************)
\* the next n bytes of the line: the rest of frame, then the start of next
ReadBytes(frame, skew, next, n) == SubSeq(frame \o next, skew + 1, skew + n)

\* the line after n bytes have been taken from it
AfterRead(frame, skew, next, n) ==
    IF skew + n >= BUF_LEN
    THEN [frame |-> next, skew |-> skew + n - BUF_LEN]
    ELSE [frame |-> frame, skew |-> skew + n]

\* the checksum test, always passing
CrcMatches_Always(buf) == TRUE

\* internal_buf[9] != computed_crc, negated
CrcMatches(buf) == buf[BUF_LEN] = telemetry_compute_crc(SubSeq(buf, 1, BUF_LEN - 1))

\* bytes the line loses when the read of single_byte fails: the byte in
\* error, and one more when the receiver overran
DropErrorConsumed == {1, 2}

\* bytes a failing 10-byte read has stored before the byte in error
ErrorOffsets == {0, 1}

\* one iteration of the loop.  A failing read has stored j bytes and taken
\* the byte in error off the line as well.
U_Iterate ==
    /\ t_pc = "uart"
    /\ \E next \in TransportUartFrames, read_ok \in BOOLEAN :
         IF ~read_ok
         THEN \E j \in ErrorOffsets :
              \E got \in {ReadBytes(uart_frame, uart_skew, next, j)},
                 line \in {AfterRead(uart_frame, uart_skew, next, j + 1)} :
                /\ internal_buf' = [i \in 1..BUF_LEN |->
                                      IF i <= j THEN got[i] ELSE internal_buf[i]]
                /\ uart_frame' = line.frame
                /\ uart_skew' = line.skew
                /\ u_iter' = [outcome |-> "read_error", drop |-> "none",
                              consumed |-> j + 1]
                /\ UNCHANGED << relayVars, crc_state, last_written, r_quiet >>
         ELSE \E buf \in {ReadBytes(uart_frame, uart_skew, next, BUF_LEN)} :
                /\ internal_buf' = buf
                /\ IF ~CrcMatches(buf)
                   THEN \E next2 \in TransportUartFrames,
                           n \in {1} \cup DropErrorConsumed, drop_ok \in BOOLEAN :
                        \E line \in {AfterRead(next, uart_skew, next2, n)} :
                          /\ drop_ok => n = 1
                          /\ uart_frame' = line.frame
                          /\ uart_skew' = line.skew
                          /\ crc_state' = "Invalid"
                          /\ u_iter' = [outcome |-> "mismatch",
                                        drop |-> IF drop_ok THEN "ok" ELSE "error",
                                        consumed |-> BUF_LEN + n]
                          /\ UNCHANGED << relayVars, last_written, r_quiet >>
                   ELSE /\ uart_frame' = next
                        /\ uart_skew' = uart_skew
                        /\ crc_state' = "Valid"
                        /\ buffers' = StoreAll(buffers, CopyDestination(current), buf)
                        /\ current' = 1 - current
                        /\ last_written' = buf
                        /\ r_quiet' = FALSE
                        /\ u_iter' = [outcome |-> "written", drop |-> "none",
                                      consumed |-> BUF_LEN]
    /\ UNCHANGED << readerVars, spiVars, t_pc, w_current, w_current_buf,
                    w_dest, w_k, telemetry_buffer, overflow_checks,
                    i2cVars, driverVars, frameVars, hwVars,
                    laterVars >>

(***************************************************************************)
(* DoubleBuffer::read, called by spi_task on core0                         *)
(***************************************************************************)
R_Load ==
    /\ r_pc = "load"
    /\ r_current' = current
    /\ r_k' = 0
    /\ r_pc' = "copy"
    /\ r_quiet' = (t_pc # "w_copy")
    /\ UNCHANGED << relayVars, writerVars, spiVars, r_buffers,
                    telemetry_buffer, overflow_checks,
                    otherVars >>

\* `let buffers = *self.buffers.get()`: the 20 bytes, one at a time
R_Copy ==
    /\ r_pc = "copy"
    /\ r_k < 2 * BUF_LEN
    /\ r_buffers' = [r_buffers EXCEPT ![r_k \div BUF_LEN][(r_k % BUF_LEN) + 1] =
                        buffers[r_k \div BUF_LEN][(r_k % BUF_LEN) + 1]]
    /\ r_k' = r_k + 1
    /\ UNCHANGED << relayVars, writerVars, spiVars, r_pc, r_current,
                    telemetry_buffer, overflow_checks, r_quiet,
                    otherVars >>

\* output.copy_from_slice(&buffers[current]) and the return into spi_task
R_Done ==
    /\ r_pc = "copy"
    /\ r_k = 2 * BUF_LEN
    /\ telemetry_buffer' = r_buffers[r_current]
    /\ r_pc' = "idle"
    /\ r_buffers' = [s \in 0..1 |-> ZeroBuf]
    /\ r_k' = 0
    /\ IF pc = "init"
       THEN /\ pc' = "seeking"
            /\ telemetry_byte_idx' = telemetry_byte_idx
       ELSE /\ pc' = "exchange"
            /\ telemetry_byte_idx' = 0
    /\ UNCHANGED << relayVars, writerVars, r_current, transfer_buffer,
                    synced_count, rx_pending, tx_word, tx_pushed, tx_timeouts, match_run,
                    seek_matched, forwarded, overflow_checks, r_quiet,
                    otherVars >>

\* the whole of read in one step: what it copies into `output`
read(bufs, cur) == bufs[cur]

\* the snapshot refreshed two words early
RefreshDue_Early(idx) == idx = 8

\* `if telemetry_byte_idx == 10`
RefreshDue(idx) == idx = 10

\* `telemetry_byte_idx += 2`
IdxAfterTransfer(idx) == idx + 2

\* `TELEMETRY_BUFFERS.read(&mut telemetry_buffer)` before the seeking loop
InitRead ==
    /\ pc = "init"
    /\ telemetry_buffer' = read(buffers, current)
    /\ r_pc' = "idle"
    /\ r_quiet' = TRUE
    /\ pc' = "seeking"
    /\ UNCHANGED << relayVars, writerVars, r_current, r_buffers, r_k,
                    transfer_buffer, telemetry_byte_idx, synced_count,
                    rx_pending, tx_word, tx_pushed, tx_timeouts, match_run, seek_matched,
                    forwarded, overflow_checks,
                    otherVars >>

\* head of the exchange loop when all 10 bytes have been sent
Refresh ==
    /\ pc = "exchange"
    /\ RefreshDue(telemetry_byte_idx)
    /\ telemetry_buffer' = read(buffers, current)
    /\ telemetry_byte_idx' = 0
    /\ r_quiet' = TRUE
    /\ UNCHANGED << relayVars, writerVars, readerVars, pc, transfer_buffer,
                    synced_count, rx_pending, tx_word, tx_pushed, tx_timeouts, match_run,
                    seek_matched, forwarded, overflow_checks,
                    otherVars >>

(***************************************************************************)
(* The host byte stream seen by the SPI peripheral                         *)
(***************************************************************************)
\* the two bytes a 2-byte read takes when the host sends frame f next
Window(pending, f) ==
    IF pending = <<>> THEN to_le_bytes(f)
    ELSE <<pending[1], to_le_bytes(f)[1]>>

\* the bytes of f left on the wire after that read
Rest(pending, f) ==
    IF pending = <<>> THEN <<>> ELSE <<to_le_bytes(f)[2]>>

(***************************************************************************)
(* core0::write_dshot and the driver fan-out                               *)
(***************************************************************************)
\* the sets of channels whose push times out during one fan-out; a call
\* that returns before the fan-out pushes nothing, so nothing times out
FanoutTimeouts == {T \in SUBSET Channels : Cardinality(T) <= MaxTimeouts}

NoTimeouts == {{}}

\* PrivateDShotDriver::write_frame on one channel: pushed, or timed out
write_frame(frame, timedOut) ==
    IF timedOut \/ frame = NoFrame THEN NoFrame ELSE frame

\* the fan-out left at the first channel that fails
for_each_driver_ReturnOnError(frame, T) ==
    [ch \in Channels |-> write_frame(frame, \E c \in T : c <= ch)]

\* for_each_driver!: the same call on each of the 8 channels, none skipped
for_each_driver(frame, T) ==
    [ch \in Channels |-> write_frame(frame, ch \in T)]

\* u16 `a - b` when it wraps
Sub16(a, b) == (a - b + 65536) % 65536

\* write_dshot up to the fan-out: the frame each driver call builds
\* (from_command(command, true) or from_throttle(throttle, true)), NoFrame
\* when it returns early, and whether `raw - 48` panicked
write_dshot(buffer, checks) ==
    LET first_byte == buffer[1]
        raw == from_le_bytes(buffer)
    IN  IF IsCommand(first_byte)
        THEN [panicked |-> FALSE, frame |-> from_command(first_byte, TRUE)]
        ELSE IF raw < 48 /\ checks
        THEN [panicked |-> TRUE, frame |-> NoFrame]
        ELSE IF raw < Sub16(raw, 48)
        THEN [panicked |-> FALSE, frame |-> NoFrame]
        ELSE [panicked |-> FALSE,
              frame |-> from_throttle(raw - Sub16(raw, 48), TRUE)]

(***************************************************************************)
(* spi_task                                                                *)
(***************************************************************************)
\* `telemetry_buffer[1] & 0x0F` in the seeking loop
SeekReceivedCrc(tb, xb) == Low4(tb[2])

\* `transfer_buffer[1] & 0x0F` in the exchange loop
ExchangeReceivedCrc(xb) == Low4(xb[2])

\* `if synced_count >= SYNC_THRESHOLD { break }`
SyncLoopBreaks(count) == count >= SYNC_THRESHOLD

\* the else branch without `synced_count = 0`
SyncedCountAfter_NoReset(matched, count) == IF matched THEN count + 1 ELSE count

\* synced_count after a window that did not end the loop
SyncedCountAfter(matched, count) == IF matched THEN count + 1 ELSE 0

RunCap == SYNC_THRESHOLD + 1

\* spi_task has left the seeking loop
SYNCED == pc \in {"exchange", "refresh", "panicked"}

\* one iteration of the seeking loop
SeekWith(F) ==
    /\ pc = "seeking"
    /\ \E f \in F :
         \E w \in {Window(rx_pending, f)} :
         \E matched \in {compute_standard_crc(from_le_bytes(w))
                            = SeekReceivedCrc(telemetry_buffer, w)} :
             /\ transfer_buffer' = w
             /\ rx_pending' = Rest(rx_pending, f)
             /\ seek_matched' = matched
             /\ match_run' = IF matched
                             THEN (IF match_run < RunCap THEN match_run + 1 ELSE RunCap)
                             ELSE 0
             /\ IF matched /\ SyncLoopBreaks(synced_count)
                THEN /\ pc' = "exchange"
                     /\ synced_count' = synced_count
                ELSE /\ pc' = "seeking"
                     /\ synced_count' = SyncedCountAfter(matched, synced_count)
    /\ UNCHANGED << relayVars, writerVars, readerVars, telemetry_buffer,
                    telemetry_byte_idx, tx_word, tx_pushed, tx_timeouts, forwarded,
                    overflow_checks, r_quiet,
                    otherVars >>

\* head of the exchange loop when all 10 bytes have been sent
RefreshStart ==
    /\ pc = "exchange"
    /\ RefreshDue(telemetry_byte_idx)
    /\ pc' = "refresh"
    /\ r_pc' = "load"
    /\ UNCHANGED << relayVars, writerVars, r_current, r_buffers, r_k,
                    transfer_buffer, telemetry_buffer, telemetry_byte_idx,
                    synced_count, rx_pending, tx_word, tx_pushed, tx_timeouts, match_run,
                    seek_matched, forwarded, overflow_checks, r_quiet,
                    otherVars >>

\* one iteration of the exchange loop, from the slice to write_dshot
ExchangeWith(F, TS) ==
    /\ pc = "exchange"
    /\ ~RefreshDue(telemetry_byte_idx)
    /\ \E f \in F :
         \E w \in {Window(rx_pending, f)} :
           /\ tx_word' = SubSeq(telemetry_buffer, telemetry_byte_idx + 1,
                                telemetry_byte_idx + 2)
           /\ transfer_buffer' = w
           /\ rx_pending' = Rest(rx_pending, f)
           /\ telemetry_byte_idx' = IdxAfterTransfer(telemetry_byte_idx)
           /\ IF compute_standard_crc(from_le_bytes(w)) # ExchangeReceivedCrc(w)
              THEN /\ forwarded' = "no"
                   /\ tx_pushed' = NothingPushed
                   /\ tx_timeouts' = {}
                   /\ pc' = "exchange"
              ELSE \E result \in {write_dshot(w, overflow_checks)} :
                   \E T \in (IF result.frame = NoFrame THEN NoTimeouts ELSE TS) :
                   /\ forwarded' = "yes"
                   /\ tx_pushed' = for_each_driver(result.frame, T)
                   /\ tx_timeouts' = T
                   /\ pc' = IF result.panicked THEN "panicked" ELSE "exchange"
    /\ UNCHANGED << relayVars, writerVars, readerVars, telemetry_buffer,
                    synced_count, match_run, seek_matched, overflow_checks,
                    r_quiet,
                    otherVars >>

Seek == SeekWith(HostFrames)

Exchange == ExchangeWith(HostFrames, FanoutTimeouts)

SeekIdle == SeekWith(IdleHostFrames)

ExchangeIdle == ExchangeWith(IdleHostFrames, NoTimeouts)

SeekEncoded == SeekWith(EncodedHostFrames)

ExchangeEncoded == ExchangeWith(EncodedHostFrames, NoTimeouts)

SeekFanout == SeekWith(FanoutHostFrames)

ExchangeFanout == ExchangeWith(FanoutHostFrames, FanoutTimeouts)

(***************************************************************************)
(* rp2040-dshot driver: one channel and its sequencer's TX FIFO            *)
(***************************************************************************)
\* throttles passed to the driver: both ends of the range, the first value
\* out of range, and larger ones
ThrottleInputs == {0, 1999, 2000, 2047, 65535}

\* PrivateDShotDriver::try_write_frame: try_push fails on a full FIFO
try_write_frame(queue) == Len(queue) < QueueDepth

\* DShotDriver::write_throttle; the push waits 500 us for room in the FIFO
write_throttle(queue, throttle, request_telemetry) ==
    LET frame == from_throttle(throttle, request_telemetry)
    IN  IF frame = NoFrame
        THEN [queue |-> queue, result |-> <<"ThrottleBoundsError", throttle>>]
        ELSE IF write_frame(frame, Len(queue) >= QueueDepth) = NoFrame
        THEN [queue |-> queue, result |-> <<"TimeoutError">>]
        ELSE [queue |-> Append(queue, frame), result |-> <<"Ok">>]

\* DShotDriver::try_write_throttle
try_write_throttle(queue, throttle, request_telemetry) ==
    LET frame == from_throttle(throttle, request_telemetry)
    IN  IF frame = NoFrame
        THEN [queue |-> queue, result |-> <<"ThrottleBoundsError", throttle>>]
        ELSE IF ~try_write_frame(queue)
        THEN [queue |-> queue, result |-> <<"TxTryPushFaliure">>]
        ELSE [queue |-> Append(queue, frame), result |-> <<"Ok">>]

D_WriteThrottle ==
    \E throttle \in ThrottleInputs, request_telemetry \in BOOLEAN :
      \E r \in {write_throttle(d_queue, throttle, request_telemetry)} :
        /\ d_call' = [fn |-> "write_throttle", throttle |-> throttle,
                      request_telemetry |-> request_telemetry]
        /\ d_before' = d_queue
        /\ d_queue' = r.queue
        /\ d_result' = r.result
        /\ UNCHANGED << relayVars, writerVars, readerVars, spiVars, i2cVars,
                        uartVars, frameVars, hwVars, telemetry_buffer, overflow_checks,
                    r_quiet,
                    laterVars >>

D_TryWriteThrottle ==
    \E throttle \in ThrottleInputs, request_telemetry \in BOOLEAN :
      \E r \in {try_write_throttle(d_queue, throttle, request_telemetry)} :
        /\ d_call' = [fn |-> "try_write_throttle", throttle |-> throttle,
                      request_telemetry |-> request_telemetry]
        /\ d_before' = d_queue
        /\ d_queue' = r.queue
        /\ d_result' = r.result
        /\ UNCHANGED << relayVars, writerVars, readerVars, spiVars, i2cVars,
                        uartVars, frameVars, hwVars, telemetry_buffer, overflow_checks,
                    r_quiet,
                    laterVars >>

\* the sequencer pulls the oldest frame out of its TX FIFO
D_Pull ==
    /\ d_queue # <<>>
    /\ d_call' = [fn |-> "pull"]
    /\ d_before' = d_queue
    /\ d_queue' = Tail(d_queue)
    /\ d_result' = <<"Ok">>
    /\ UNCHANGED << relayVars, writerVars, readerVars, spiVars, i2cVars,
                    uartVars, frameVars, hwVars, telemetry_buffer, overflow_checks,
                    r_quiet,
                    laterVars >>

(***************************************************************************)
(* rp2040-dshot encoder: a Frame built and read back                       *)
(***************************************************************************)
\* throttles far out of range, up to the largest u16; from 65488 on,
\* throttle + 48 does not fit a u16
HighThrottles == {4095, 32768, 65487, 65488, 65535}

FrameInputs ==
    [fn : {"from_throttle"}, arg : (0..MaxThrottle) \cup HighThrottles,
     request_telemetry : BOOLEAN, is_inverted : BOOLEAN]
    \cup
    [fn : {"from_command"}, arg : CommandCodes,
     request_telemetry : BOOLEAN, is_inverted : BOOLEAN]

F_FromThrottle ==
    /\ fr_in.fn = "from_throttle"
    /\ ~fr_called
    /\ fr_called' = TRUE
    /\ fr_frame' = Frame_from_throttle(fr_in.is_inverted, fr_in.arg,
                                       fr_in.request_telemetry)
    /\ UNCHANGED << relayVars, writerVars, readerVars, spiVars, i2cVars,
                    driverVars, uartVars, hwVars, telemetry_buffer, overflow_checks,
                    r_quiet, fr_in, fr_decoded,
                    laterVars >>

F_FromCommand ==
    /\ fr_in.fn = "from_command"
    /\ ~fr_called
    /\ fr_called' = TRUE
    /\ fr_frame' = Frame_from_command(fr_in.is_inverted, fr_in.arg,
                                      fr_in.request_telemetry)
    /\ UNCHANGED << relayVars, writerVars, readerVars, spiVars, i2cVars,
                    driverVars, uartVars, hwVars, telemetry_buffer, overflow_checks,
                    r_quiet, fr_in, fr_decoded,
                    laterVars >>

\* the accessors of the frame built
F_Decode ==
    /\ fr_frame # NoFrame
    /\ fr_decoded = NotDecoded
    /\ fr_decoded' = [called |-> TRUE,
                      speed |-> speed(fr_frame),
                      telemetry_enabled |-> telemetry_enabled(fr_frame),
                      crc |-> Frame_crc(fr_frame)]
    /\ UNCHANGED << relayVars, writerVars, readerVars, spiVars, i2cVars,
                    driverVars, uartVars, hwVars, telemetry_buffer, overflow_checks,
                    r_quiet, fr_in, fr_called, fr_frame,
                    laterVars >>

(***************************************************************************)
(* The hardware waits of the steady state: the SPI transfer of spi_task,   *)
(* the pushes of its fan-out, and the serial read of the ingest loop.      *)
(* A step of a peripheral is a step the firmware can only wait for.        *)
(***************************************************************************)
\* the fan-out moves to the next channel, or the iteration ends
AfterPush ==
    /\ hw_waited' = 0
    /\ IF hw_channel < NUM_CHANNELS
       THEN /\ hw_channel' = hw_channel + 1
            /\ UNCHANGED << hw_pc, hw_turn, hw_stalled >>
       ELSE /\ hw_channel' = 1
            /\ hw_pc' = "transfer"
            /\ hw_turn' = 1 - hw_turn
            /\ hw_stalled' = {}

\* the host clocks two bytes through the SPI slave: blocking_transfer_in_place
\* returns; a word failing the checksum ends the iteration, any other word
\* starts the fan-out
H_HostClocks ==
    /\ hw_pc = "transfer"
    /\ \E word \in HostFrames, T \in FanoutTimeouts :
         IF compute_standard_crc(word) # Low4(word \div 256)
         THEN /\ hw_turn' = 1 - hw_turn
              /\ UNCHANGED << hw_pc, hw_stalled >>
         ELSE /\ hw_pc' = "push"
              /\ hw_stalled' = T
              /\ UNCHANGED hw_turn
    /\ UNCHANGED << hw_channel, hw_waited, hw_uart_turn >>
    /\ UNCHANGED << relayVars, writerVars, readerVars, spiVars, i2cVars,
                    driverVars, uartVars, frameVars, telemetry_buffer,
                    overflow_checks, r_quiet,
                    laterVars >>

\* write_frame: the sequencer has room, wait_push completes
H_PushReady ==
    /\ hw_pc = "push"
    /\ hw_channel \notin hw_stalled
    /\ AfterPush
    /\ UNCHANGED hw_uart_turn
    /\ UNCHANGED << relayVars, writerVars, readerVars, spiVars, i2cVars,
                    driverVars, uartVars, frameVars, telemetry_buffer,
                    overflow_checks, r_quiet,
                    laterVars >>

\* write_frame: the sequencer has no room and the timer of with_timeout runs
H_PushTick ==
    /\ hw_pc = "push"
    /\ hw_channel \in hw_stalled
    /\ hw_waited < PushTimeoutTicks
    /\ hw_waited' = hw_waited + 1
    /\ UNCHANGED << hw_pc, hw_channel, hw_stalled, hw_turn, hw_uart_turn >>
    /\ UNCHANGED << relayVars, writerVars, readerVars, spiVars, i2cVars,
                    driverVars, uartVars, frameVars, telemetry_buffer,
                    overflow_checks, r_quiet,
                    laterVars >>

\* write_frame: with_timeout returns TimeoutError, which the fan-out logs
H_PushTimeout ==
    /\ hw_pc = "push"
    /\ hw_channel \in hw_stalled
    /\ hw_waited = PushTimeoutTicks
    /\ AfterPush
    /\ UNCHANGED hw_uart_turn
    /\ UNCHANGED << relayVars, writerVars, readerVars, spiVars, i2cVars,
                    driverVars, uartVars, frameVars, telemetry_buffer,
                    overflow_checks, r_quiet,
                    laterVars >>

\* the ESC sends bytes: blocking_read returns and the iteration of the
\* ingest loop ends, whichever way
H_EscSends ==
    /\ hw_uart_turn' = 1 - hw_uart_turn
    /\ UNCHANGED << hw_pc, hw_channel, hw_stalled, hw_waited, hw_turn >>
    /\ UNCHANGED << relayVars, writerVars, readerVars, spiVars, i2cVars,
                    driverVars, uartVars, frameVars, telemetry_buffer,
                    overflow_checks, r_quiet,
                    laterVars >>

(***************************************************************************)
(* rp2040-dshot encoder: TelemetryFrame::from_bytes                        *)
(***************************************************************************)
\* from_bytes without its checksum test
from_bytes_Unchecked(data) ==
    [temp |-> data[1],
     voltage |-> from_le_bytes(<<data[2], data[3]>>),
     current |-> from_le_bytes(<<data[4], data[5]>>),
     consumption |-> from_le_bytes(<<data[6], data[7]>>),
     e_rpm |-> from_le_bytes(<<data[8], data[9]>>),
     crc |-> data[10]]

\* TelemetryFrame::from_bytes
from_bytes(data) ==
    IF telemetry_compute_crc(SubSeq(data, 1, BUF_LEN - 1)) # data[BUF_LEN]
    THEN NoTelemetry
    ELSE [temp |-> data[1],
          voltage |-> from_le_bytes(<<data[2], data[3]>>),
          current |-> from_le_bytes(<<data[4], data[5]>>),
          consumption |-> from_le_bytes(<<data[6], data[7]>>),
          e_rpm |-> from_le_bytes(<<data[8], data[9]>>),
          crc |-> data[10]]

\* multipliers of the byte patterns handed to from_bytes as bytes 0..8
TelemetrySeeds == {1, 37, 129, 255}

\* bytes 0..8 handed to from_bytes
TelemetryPayloads ==
    {SampleData(s) : s \in TelemetrySeeds}
    \cup {[i \in 1..(BUF_LEN - 1) |-> 0], [i \in 1..(BUF_LEN - 1) |-> 255]}

\* the frames from_bytes accepts among those handed to it
AcceptedTelemetry ==
    {Append(d, telemetry_compute_crc(d)) : d \in TelemetryPayloads}

\* data with bit k flipped, bit 0 being the lowest bit of byte 0
FlipBit(data, k) ==
    LET i == (k \div 8) + 1
        w == 2 ^ (k % 8)
    IN  [data EXCEPT ![i] = IF (data[i] \div w) % 2 = 1 THEN data[i] - w
                            ELSE data[i] + w]

\* what from_bytes is called with: a payload followed by any tenth byte, or
\* an accepted frame with one of its 80 bits flipped
TelemetryInputs ==
    {[origin |-> "any", bytes |-> Append(d, c), base |-> Append(d, c), bit |-> 0] :
        d \in TelemetryPayloads, c \in 0..255}
    \cup
    {[origin |-> "flipped", bytes |-> FlipBit(f, k), base |-> f, bit |-> k] :
        f \in AcceptedTelemetry, k \in 0..(8 * BUF_LEN - 1)}

TF_FromBytes ==
    /\ ~tf_called
    /\ tf_called' = TRUE
    /\ tf_frame' = from_bytes(tf_in.bytes)
    /\ UNCHANGED tf_in
    /\ UNCHANGED << relayVars, writerVars, readerVars, spiVars, i2cVars,
                    driverVars, uartVars, frameVars, hwVars, seqVars, gcrVars,
                    erpmVars, telemetry_buffer, overflow_checks, r_quiet >>

\* the table with the reserved pattern 0b01100 filled in
GCR_DECODING_MAP_Filled ==
    << NoValue, NoValue, NoValue, NoValue, NoValue, NoValue, NoValue, NoValue,
       NoValue, 9, 10, 11, 12, 13, 14, 15,
       NoValue, NoValue, 2, 3, NoValue, 5, 6, 7,
       NoValue, 0, 8, 1, NoValue, 4, 12, NoValue >>

(***************************************************************************)
(* rp2040-dshot driver: the eRPM reader task and decode_gcr                *)
(***************************************************************************)
\* GCR_DECODING_MAP, entry i + 1 for index i; NoValue stands for None
GCR_DECODING_MAP ==
    << NoValue, NoValue, NoValue, NoValue, NoValue, NoValue, NoValue, NoValue,
       NoValue, 9, 10, 11, NoValue, 13, 14, 15,
       NoValue, NoValue, 2, 3, NoValue, 5, 6, 7,
       NoValue, 0, 8, 1, NoValue, 4, 12, NoValue >>

\* decode_gcr from the iteration `shift` of its loop on.  The last iteration
\* shifts a u16 by 16: a panic where overflow is checked, a shift by
\* 16 mod 16 = 0 where it is not.
RECURSIVE decode_gcr_from(_, _, _, _)
decode_gcr_from(gcr, shift, result, checks) ==
    IF shift > 4 THEN [panicked |-> FALSE, value |-> result]
    ELSE LET index == (gcr \div (32 ^ shift)) % 32
             nibble == GCR_DECODING_MAP[index + 1]
         IN  IF nibble = NoValue THEN [panicked |-> FALSE, value |-> NoValue]
             ELSE IF shift * 4 >= 16 /\ checks
             THEN [panicked |-> TRUE, value |-> NoValue]
             ELSE Only({decode_gcr_from(gcr, shift + 1, r, checks) :
                          r \in {BitOr(result, Shl16(nibble, (shift * 4) % 16))}})

decode_gcr(gcr, checks) == decode_gcr_from(gcr, 1, 0, checks)

\* 5-bit symbols the line code is made of here: the reserved 0 and 31, and
\* the valid 9, 25 and 30 (nibbles 9, 0 and 12)
GcrSymbolSamples == {0, 9, 25, 30, 31}

\* the word whose symbol i, in bits 5i+4..5i, is s[i]
GcrWord(s) == s[0] + 32 * (s[1] + 32 * (s[2] + 32 * (s[3] + 32 * s[4])))

\* the word v for which v ^ (v >> 1) is g
RECURSIVE Interleaved(_)
Interleaved(g) == IF g = 0 THEN 0 ELSE BitXor(g, Interleaved(g \div 2))

\* words the sequencer captures: every choice of five symbols
CapturedWords ==
    {Interleaved(GcrWord(s)) : s \in [0..4 -> GcrSymbolSamples]}

\* one iteration of erpm_reader_task_impl
G_Capture ==
    /\ g_event = "none"
    /\ \E irq_ok \in BOOLEAN, pull_ok \in BOOLEAN :
         IF ~irq_ok
         THEN /\ g_event' = "irq_timeout"
              /\ UNCHANGED << g_gcr, g_data, g_channel >>
         ELSE IF ~pull_ok
         THEN /\ g_event' = "pull_failed"
              /\ UNCHANGED << g_gcr, g_data, g_channel >>
         ELSE \E gcr \in {BitXor(g_value, g_value \div 2)} :
              \E r \in {decode_gcr(gcr, overflow_checks)} :
                /\ g_gcr' = gcr
                /\ g_data' = r.value
                /\ IF r.panicked
                   THEN g_event' = "panicked" /\ UNCHANGED g_channel
                   ELSE IF r.value = NoValue
                   THEN g_event' = "decode_failed" /\ UNCHANGED g_channel
                   ELSE IF Len(g_channel) >= ChannelDepth
                   THEN g_event' = "send_timeout" /\ UNCHANGED g_channel
                   ELSE /\ g_event' = "sent"
                        /\ g_channel' = Append(g_channel, r.value)
    /\ UNCHANGED g_value
    /\ UNCHANGED << relayVars, writerVars, readerVars, spiVars, i2cVars,
                    driverVars, uartVars, frameVars, hwVars, seqVars, telemVars,
                    erpmVars, telemetry_buffer, overflow_checks, r_quiet >>

(***************************************************************************)
(* rp2040-dshot encoder: eRPM frames, and the driver's reads of them       *)
(***************************************************************************)
shift_from_raw(raw) == Shr(raw, 12) % 8

base_from_raw(raw) == Shr(raw, 3) % 512

\* ERpmVarient::compute_crc
ERpm_compute_crc(raw) == compute_standard_crc(raw)

\* ERpmVarient::crc_from_raw
crc_from_raw(raw) == Low4(raw)

\* StandardERpmFrame::from_raw
Standard_from_raw(raw) ==
    IF crc_from_raw(raw) = ERpm_compute_crc(raw)
    THEN [shift |-> shift_from_raw(raw), base |-> base_from_raw(raw),
          crc |-> crc_from_raw(raw)]
    ELSE NoERpmFrame

\* type tags of ExtendedERpmData::from_raw other than Rpm
ExtendedTypes ==
    [t \in {2, 4, 6, 8, 10, 12, 14} |->
        CASE t = 2 -> "Temperature" [] t = 4 -> "Voltage" [] t = 6 -> "Current"
          [] t = 8 -> "Debug1" [] t = 10 -> "Debug2" [] t = 12 -> "Debug3"
          [] t = 14 -> "StateOrEvent"]

\* ExtendedERpmData::from_raw
ExtendedERpmData_from_raw(raw) ==
    IF Shr(raw, 12) \in DOMAIN ExtendedTypes
    THEN [type |-> ExtendedTypes[Shr(raw, 12)], data |-> Shr(raw, 4) % 256]
    ELSE [type |-> "Rpm", shift |-> shift_from_raw(raw), base |-> base_from_raw(raw)]

\* ExtendedERpmFrame::from_raw
Extended_from_raw(raw) ==
    IF crc_from_raw(raw) # ERpm_compute_crc(raw) THEN NoERpmFrame
    ELSE [data |-> ExtendedERpmData_from_raw(raw), crc |-> crc_from_raw(raw)]

\* V::from_raw
from_raw(variant, raw) ==
    IF variant = "standard" THEN Standard_from_raw(raw) ELSE Extended_from_raw(raw)

\* the period taken to be the base, whatever the shift
period_Unshifted(base, shift) == base

\* (u32::from(base)) << shift
period(base, shift) == base * Pow2(shift)

\* StandardERpmFrame::compute_period_us
Standard_compute_period_us(frame) ==
    IF frame.base = 0 THEN NoPeriod ELSE period(frame.base, frame.shift)

\* StandardERpmFrame::compute_rpm
Standard_compute_rpm(frame) ==
    LET p == Standard_compute_period_us(frame)
    IN  IF p = NoPeriod THEN 0 ELSE 60000000 \div p

\* ExtendedERpmFrame::compute_period_us
Extended_compute_period_us(frame) ==
    IF frame.data.type # "Rpm" THEN [err |-> "NotRpmPacket"]
    ELSE IF frame.data.base = 0 THEN [err |-> "StoppedMotor"]
    ELSE IF period(frame.data.base, frame.data.shift) = 0 THEN [err |-> "StoppedMotor"]
    ELSE [ok |-> period(frame.data.base, frame.data.shift)]

\* ExtendedERpmFrame::compute_rpm
Extended_compute_rpm(frame) ==
    LET p == Extended_compute_period_us(frame)
    IN  IF "ok" \in DOMAIN p THEN [ok |-> 60000000 \div p.ok]
        ELSE IF p.err = "StoppedMotor" THEN [ok |-> 0]
        ELSE p

\* nibbles the 16-bit values read from the channel are made of
RawNibbles == {0, 1, 2, 3, 8, 15}

\* 16-bit values read from the channel
ERpmRaws ==
    {4096 * a + 256 * b + 16 * c + d :
        a \in 0..15, b \in RawNibbles, c \in RawNibbles, d \in RawNibbles}

\* frames as their fields: every base and every shift, and for the extended
\* variant the other packet types too
ERpmFieldInputs ==
    {[kind |-> "fields", variant |-> "standard",
      frame |-> [shift |-> e, base |-> m, crc |-> 0]] : e \in 0..7, m \in 0..511}
    \cup
    {[kind |-> "fields", variant |-> "extended",
      frame |-> [data |-> [type |-> "Rpm", shift |-> e, base |-> m], crc |-> 0]] :
        e \in 0..7, m \in 0..511}
    \cup
    {[kind |-> "fields", variant |-> "extended",
      frame |-> [data |-> [type |-> ExtendedTypes[t], data |-> 100], crc |-> 0]] :
        t \in DOMAIN ExtendedTypes}

\* a value waiting in the channel, or none
ERpmRawInputs ==
    [kind : {"raw"}, variant : {"standard", "extended"}, raw : ERpmRaws]
    \cup [kind : {"empty"}, variant : {"standard", "extended"}]

\* BdDShotDriver::read_telemetry: 500 us for a value, then V::from_raw
E_ReadTelemetry ==
    /\ er_in.kind \in {"raw", "empty"}
    /\ ~er_called
    /\ er_called' = TRUE
    /\ IF g_channel = <<>>
       THEN /\ er_result' = [err |-> "TimeoutError"]
            /\ UNCHANGED g_channel
       ELSE /\ g_channel' = Tail(g_channel)
            /\ \E f \in {from_raw(er_in.variant, Head(g_channel))} :
                 er_result' = IF f = NoERpmFrame
                              THEN [err |-> "InvalidTelemetryChecksum"]
                              ELSE [ok |-> f]
    /\ UNCHANGED << er_in, er_computed, g_value, g_gcr, g_event, g_data >>
    /\ UNCHANGED << relayVars, writerVars, readerVars, spiVars, i2cVars,
                    driverVars, uartVars, frameVars, hwVars, seqVars, telemVars,
                    telemetry_buffer, overflow_checks, r_quiet >>

\* BdDShotDriver::try_read_telemerty
E_TryReadTelemetry ==
    /\ er_in.kind \in {"raw", "empty"}
    /\ ~er_called
    /\ er_called' = TRUE
    /\ IF g_channel = <<>>
       THEN /\ er_result' = [err |-> "TryReceiveError"]
            /\ UNCHANGED g_channel
       ELSE /\ g_channel' = Tail(g_channel)
            /\ \E f \in {from_raw(er_in.variant, Head(g_channel))} :
                 er_result' = IF f = NoERpmFrame
                              THEN [err |-> "InvalidTelemetryChecksum"]
                              ELSE [ok |-> f]
    /\ UNCHANGED << er_in, er_computed, g_value, g_gcr, g_event, g_data >>
    /\ UNCHANGED << relayVars, writerVars, readerVars, spiVars, i2cVars,
                    driverVars, uartVars, frameVars, hwVars, seqVars, telemVars,
                    telemetry_buffer, overflow_checks, r_quiet >>

\* the accessors and compute functions of the frame in hand
E_Compute ==
    /\ "ok" \in DOMAIN er_result
    /\ er_computed = NotComputed
    /\ \E f \in {er_result.ok} :
         er_computed' =
            IF er_in.variant = "standard"
            THEN [called |-> TRUE, shift |-> f.shift, base |-> f.base,
                  period |-> Standard_compute_period_us(f),
                  rpm |-> Standard_compute_rpm(f)]
            ELSE [called |-> TRUE,
                  shift |-> IF f.data.type = "Rpm" THEN f.data.shift ELSE NoValue,
                  base |-> IF f.data.type = "Rpm" THEN f.data.base ELSE NoValue,
                  period |-> Extended_compute_period_us(f),
                  rpm |-> Extended_compute_rpm(f)]
    /\ UNCHANGED << er_in, er_called, er_result, gcrVars >>
    /\ UNCHANGED << relayVars, writerVars, readerVars, spiVars, i2cVars,
                    driverVars, uartVars, frameVars, hwVars, seqVars, telemVars,
                    telemetry_buffer, overflow_checks, r_quiet >>

(***************************************************************************)
(* rp2040-dshot program.rs: the timing tables                              *)
(***************************************************************************)
DShotSpeeds == {"DShot150", "DShot300", "DShot600", "DShot1200"}

\* DShotSpeed::bit_rate_hz
bit_rate_hz(dshot_speed) ==
    CASE dshot_speed = "DShot150" -> 150000
      [] dshot_speed = "DShot300" -> 300000
      [] dshot_speed = "DShot600" -> 600000
      [] dshot_speed = "DShot1200" -> 1200000

\* a GCR bit rate equal to the normal bit rate
gcr_bit_rate_hz_Same(dshot_speed) == bit_rate_hz(dshot_speed)

\* DShotSpeed::gcr_bit_rate_hz
gcr_bit_rate_hz(dshot_speed) ==
    CASE dshot_speed = "DShot150" -> 187500
      [] dshot_speed = "DShot300" -> 375000
      [] dshot_speed = "DShot600" -> 750000
      [] dshot_speed = "DShot1200" -> 1500000

\* a u32 subtraction went below zero in a build that checks for it
Panicked == [panicked |-> TRUE]

\* `as u8` of a u32; a negative v stands for the wrapped value 2^32 + v
AsU8(v) == v % 256

\* BitTimingDelays::new; with `checks` a subtraction below zero panics,
\* without it the difference wraps
BitTimingDelays_new(bit_period, checks) ==
    LET one_high == (bit_period * 3) \div 5
        zero_high == (bit_period * 3) \div 10
        one_low == bit_period - one_high
        zero_low == bit_period - zero_high
    IN  IF checks /\ (one_high < 1 \/ zero_high < 1 \/ one_low < 5 \/ zero_low < 5)
        THEN Panicked
        ELSE [one_high_delay |-> AsU8(one_high - 1),
              zero_high_delay |-> AsU8(zero_high - 1),
              one_low_delay |-> AsU8(one_low - 5),
              zero_low_delay |-> AsU8(zero_low - 5)]

\* FrameTimingDelays::from_total_delay; a negative frame_delay_total stands
\* for the wrapped value 2^32 + frame_delay_total
from_total_delay(frame_delay_total, checks) ==
    LET frame_delay_remainder_raw == frame_delay_total % 32
    IN  IF checks /\ frame_delay_remainder_raw < 7
        THEN Panicked
        ELSE [frame_delay_count |-> AsU8(frame_delay_total \div 32),
              frame_delay_remainder |-> AsU8(frame_delay_remainder_raw - 7),
              frame_delay |-> (frame_delay_total \div 32) % 32]

\* FrameTimingDelays::new_standard
new_standard(bit_period, pio_clock, update_rate, checks) ==
    LET frame_period == pio_clock \div update_rate
        bit_transmission_time == bit_period * 16
        frame_delay_total == frame_period - bit_transmission_time - 1
    IN  IF checks /\ frame_delay_total < 0
        THEN Panicked
        ELSE from_total_delay(frame_delay_total, checks)

\* FrameTimingDelays::new_bidirectional
new_bidirectional(dshot_bit_period, gcr_bit_period, pio_clock, update_rate, checks) ==
    LET frame_period == pio_clock \div update_rate
        transmission_time == dshot_bit_period * 16
        reception_time == gcr_bit_period * 21
        frame_delay_total == frame_period - transmission_time - reception_time - 8
    IN  IF checks /\ frame_delay_total < 0
        THEN Panicked
        ELSE from_total_delay(frame_delay_total, checks)

\* StandardDShotTimings::new
StandardDShotTimings_new(dshot_speed, pio_clock, update_rate, checks) ==
    LET bit_period == pio_clock \div bit_rate_hz(dshot_speed)
        bit_timings == BitTimingDelays_new(bit_period, checks)
        frame_timings == new_standard(bit_period, pio_clock, update_rate, checks)
    IN  IF bit_timings = Panicked \/ frame_timings = Panicked
        THEN Panicked
        ELSE [bit_timings |-> bit_timings, frame_timings |-> frame_timings]

\* BdDShotTimings::new
BdDShotTimings_new(dshot_speed, pio_clock, update_rate, checks) ==
    LET dshot_bit_period == pio_clock \div bit_rate_hz(dshot_speed)
        gcr_bit_period == pio_clock \div gcr_bit_rate_hz(dshot_speed)
        bit_timings == BitTimingDelays_new(dshot_bit_period, checks)
        frame_timings == new_bidirectional(dshot_bit_period, gcr_bit_period,
                                           pio_clock, update_rate, checks)
    IN  IF bit_timings = Panicked \/ frame_timings = Panicked
           \/ (checks /\ (gcr_bit_period < 2 \/ gcr_bit_period \div 2 < 2))
        THEN Panicked
        ELSE [bit_timings |-> bit_timings, frame_timings |-> frame_timings,
              gcr_bit_read_delay |-> AsU8(gcr_bit_period - 2),
              gcr_initial_read_delay |-> AsU8((gcr_bit_period \div 2) - 2)]

\* sequencer clocks and update rates the tables are asked for
TimingClocks == {1000000, 8000000, 16000000, 125000000}

TimingRates == {1000, 8000, 32000}

\* the calls made: a table of either kind for a triple, or the two rates
TimingInputs ==
    [fn : {"StandardDShotTimings::new", "BdDShotTimings::new"},
     dshot_speed : DShotSpeeds, pio_clock : TimingClocks, update_rate : TimingRates]
    \cup [fn : {"rates"}, dshot_speed : DShotSpeeds]

\* main.rs: let timings = StandardDShotTimings::new(...)
T_NewStandard ==
    /\ tm_in.fn = "StandardDShotTimings::new"
    /\ ~tm_called
    /\ tm_called' = TRUE
    /\ tm_result' = StandardDShotTimings_new(tm_in.dshot_speed, tm_in.pio_clock,
                                             tm_in.update_rate, overflow_checks)
    /\ UNCHANGED << tm_in, tm_rates, pioVars >>
    /\ UNCHANGED << relayVars, writerVars, readerVars, spiVars, i2cVars,
                    driverVars, uartVars, frameVars, hwVars, telemVars, gcrVars,
                    erpmVars, telemetry_buffer, overflow_checks, r_quiet >>

\* BdDShotTimings::new
T_NewBd ==
    /\ tm_in.fn = "BdDShotTimings::new"
    /\ ~tm_called
    /\ tm_called' = TRUE
    /\ tm_result' = BdDShotTimings_new(tm_in.dshot_speed, tm_in.pio_clock,
                                       tm_in.update_rate, overflow_checks)
    /\ UNCHANGED << tm_in, tm_rates, pioVars >>
    /\ UNCHANGED << relayVars, writerVars, readerVars, spiVars, i2cVars,
                    driverVars, uartVars, frameVars, hwVars, telemVars, gcrVars,
                    erpmVars, telemetry_buffer, overflow_checks, r_quiet >>

\* test_gcr_rate_ratio: the two rates of one speed
T_Rates ==
    /\ tm_in.fn = "rates"
    /\ ~tm_called
    /\ tm_called' = TRUE
    /\ tm_rates' = [normal_rate |-> bit_rate_hz(tm_in.dshot_speed),
                    gcr_rate |-> gcr_bit_rate_hz(tm_in.dshot_speed)]
    /\ UNCHANGED << tm_in, tm_result, pioVars >>
    /\ UNCHANGED << relayVars, writerVars, readerVars, spiVars, i2cVars,
                    driverVars, uartVars, frameVars, hwVars, telemVars, gcrVars,
                    erpmVars, telemetry_buffer, overflow_checks, r_quiet >>

(***************************************************************************)
(* rp2040-dshot program.rs: the sequencer programs, and one sequencer      *)
(* running one of them behind its driver.  Instructions are numbered from  *)
(* 1; a 32-bit register is held as its two's-complement value, so that     *)
(* 0 - 1 is -1; an instruction takes one cycle plus its delay.             *)
(***************************************************************************)
Ins(op, a, b, delay) == [op |-> op, a |-> a, b |-> b, delay |-> delay]

\* the instructions both programs begin with: init to frame_delay_loop,
\* blocking_pull, start_frame and the first instruction of check_bit
ProgramHead(frame_timings) ==
    << Ins("jmp", "always", 9, 0),                                  \* init
       Ins("mov", "y", "isr", 0),                                   \* maybe_pull
       Ins("jmp", "!y", 9, 0),
       Ins("pull", FALSE, FALSE, 0),
       Ins("nop", 0, 0, frame_timings.frame_delay_remainder),
       Ins("set", "y", frame_timings.frame_delay_count, 0),
       Ins("jmp", "!y", 10, frame_timings.frame_delay),             \* frame_delay_loop
       Ins("jmp", "y--", 7, 0),
       Ins("pull", FALSE, TRUE, 0),                                 \* blocking_pull
       Ins("mov", "x", "osr", 0),                                   \* start_frame
       Ins("jmp", "!x", 9, 0),
       Ins("out", "y", 16, 0),
       Ins("jmp", "!osre", 15, 0) >>                                \* check_bit

\* start_bit, do_one and do_zero of both programs
ProgramBits(bit_timings) ==
    << Ins("out", "y", 1, 0),                                       \* start_bit
       Ins("jmp", "!y", 20, 0),
       Ins("set", "pins", 1, bit_timings.one_high_delay),           \* do_one
       Ins("set", "pins", 0, bit_timings.one_low_delay),
       Ins("jmp", "always", 13, 0),
       Ins("set", "pins", 1, bit_timings.zero_high_delay),          \* do_zero
       Ins("set", "pins", 0, bit_timings.zero_low_delay),
       Ins("jmp", "always", 13, 0) >>

generate_standard_dshot_program(timings) ==
    ProgramHead(timings.frame_timings)
    \o << Ins("jmp", "always", 2, 0) >>
    \o ProgramBits(timings.bit_timings)

generate_bd_dshot_program(timings) ==
    ProgramHead(timings.frame_timings)
    \o << Ins("jmp", "always", 23, 0) >>
    \o ProgramBits(timings.bit_timings)
    \o << Ins("set", "pindirs", 0, 0),                              \* wait_for_erpm
          Ins("wait", 0, 0, 0),
          Ins("wait", 1, 0, 0),
          Ins("set", "x", 20, 0),
          Ins("nop", 0, 0, timings.gcr_initial_read_delay),
          Ins("in", "pins", 1, timings.gcr_bit_read_delay),         \* read_bit
          Ins("jmp", "x--", 28, 0),
          Ins("push", TRUE, TRUE, 0),                               \* cleanup_read
          Ins("irq", 0, 0, 0),
          Ins("set", "pindirs", 1, 0),
          Ins("jmp", "always", 2, 0) >>

\* the assembler takes delays and `set` data of 5 bits
Encodable(program) ==
    \A i \in 1..Len(program) :
        /\ program[i].delay \in 0..31
        /\ program[i].op = "set" => program[i].b \in 0..31

\* type Variant of the driver: StandardDShotVariant in both impls
DriverIsInverted(kind) ==
    CASE kind = "standard" -> FALSE
      [] kind = "bd" -> FALSE

\* the frame write_command or write_throttle of the driver hands to
\* write_frame
DriverFrame(kind, call) ==
    IF call.fn = "write_command"
    THEN Frame_from_command(DriverIsInverted(kind), call.command,
                            call.request_telemetry)
    ELSE Frame_from_throttle(DriverIsInverted(kind), call.throttle,
                             call.request_telemetry)

\* calls made on the driver
DriverCalls ==
    { [fn |-> "write_command", command |-> 0, request_telemetry |-> FALSE],
      [fn |-> "write_command", command |-> 1, request_telemetry |-> TRUE],
      [fn |-> "write_throttle", throttle |-> 1999, request_telemetry |-> FALSE] }

\* 21 line levels the ESC answers a frame with, first level first
EscAnswers == {1398101}

\* the timing tables of the programs loaded
SequencerTimings(kind, dshot_speed, pio_clock, update_rate) ==
    IF kind = "standard"
    THEN StandardDShotTimings_new(dshot_speed, pio_clock, update_rate, TRUE)
    ELSE BdDShotTimings_new(dshot_speed, pio_clock, update_rate, TRUE)

\* a program of either kind for a speed at 8 MHz and 8 kHz
SequencerConfigs ==
    { [kind |-> k, dshot_speed |-> s, pio_clock |-> 8000000, update_rate |-> 8000,
       timings |-> SequencerTimings(k, s, 8000000, 8000), answer |-> a] :
        k \in {"standard", "bd"}, s \in {"DShot300", "DShot600"}, a \in EscAnswers }

\* the program in the sequencer's instruction memory
Program ==
    IF sm_cfg.kind = "standard"
    THEN generate_standard_dshot_program(sm_cfg.timings)
    ELSE generate_bd_dshot_program(sm_cfg.timings)

\* the instruction at the program counter
Fetch == Program[sm.pc]

\* the address after the program counter; execution wraps to the start
Succ == IF sm.pc = Len(Program) THEN 1 ELSE sm.pc + 1

\* the n bits a left-shifting OSR gives after c bits have left it
OutBits(w, c, n) == (w \div (2 ^ (32 - c - n))) % (2 ^ n)

\* JMP X-- that tests the register after decrementing it
jmp_taken_AfterDecrement(cond, x, y, osr_count) ==
    CASE cond = "always" -> TRUE
      [] cond = "!x" -> x = 0
      [] cond = "!y" -> y = 0
      [] cond = "x--" -> x - 1 # 0
      [] cond = "y--" -> y - 1 # 0
      [] cond = "!osre" -> osr_count < 32

\* whether a JMP branches: X-- and Y-- test the register before it is
\* decremented, !OSRE the shift count against the threshold of 32
jmp_taken(cond, x, y, osr_count) ==
    CASE cond = "always" -> TRUE
      [] cond = "!x" -> x = 0
      [] cond = "!y" -> y = 0
      [] cond = "x--" -> x # 0
      [] cond = "y--" -> y # 0
      [] cond = "!osre" -> osr_count < 32

\* what the pin has shown since the last pull, with one more event
Seen(event) == [sm_obs EXCEPT !.trace = Append(@, event)]

S_Jmp ==
    /\ Fetch.op = "jmp"
    /\ sm' = [sm EXCEPT
                !.pc = IF jmp_taken(Fetch.a, sm.x, sm.y, sm.osr_count)
                       THEN Fetch.b ELSE Succ,
                !.x = IF Fetch.a = "x--" THEN sm.x - 1 ELSE sm.x,
                !.y = IF Fetch.a = "y--" THEN sm.y - 1 ELSE sm.y,
                !.cycle = sm.cycle + 1 + Fetch.delay]
    /\ sm_obs' = IF Fetch.a = "!x" /\ sm.x = 0
                 THEN [sm_obs EXCEPT !.discarded = @ + 1]
                 ELSE sm_obs
    /\ UNCHANGED << sm_cfg, sm_tx, sm_rx, sm_line >>
    /\ UNCHANGED << relayVars, writerVars, readerVars, spiVars, i2cVars,
                    driverVars, uartVars, frameVars, hwVars, telemVars, gcrVars,
                    erpmVars, timingVars, telemetry_buffer, overflow_checks,
                    r_quiet >>

S_Mov ==
    /\ Fetch.op = "mov"
    /\ \E v \in {IF Fetch.b = "isr" THEN sm.isr
                 ELSE IF sm.osr_count = 0 THEN sm.osr
                 ELSE IF sm.osr_count >= 32 THEN 0
                 ELSE (sm.osr % (2 ^ (32 - sm.osr_count))) * (2 ^ sm.osr_count)} :
         sm' = [sm EXCEPT !.pc = Succ,
                          !.x = IF Fetch.a = "x" THEN v ELSE sm.x,
                          !.y = IF Fetch.a = "y" THEN v ELSE sm.y,
                          !.cycle = sm.cycle + 1 + Fetch.delay]
    /\ UNCHANGED << sm_cfg, sm_tx, sm_rx, sm_line, sm_obs >>
    /\ UNCHANGED << relayVars, writerVars, readerVars, spiVars, i2cVars,
                    driverVars, uartVars, frameVars, hwVars, telemVars, gcrVars,
                    erpmVars, timingVars, telemetry_buffer, overflow_checks,
                    r_quiet >>

\* PULL: blocking, it waits for a word; not blocking, it takes X when the
\* TX FIFO is empty
S_Pull ==
    /\ Fetch.op = "pull"
    /\ Fetch.b => sm_tx # <<>>
    /\ \E w \in {IF sm_tx # <<>> THEN Head(sm_tx) ELSE sm.x} :
         /\ sm' = [sm EXCEPT !.pc = Succ, !.osr = w, !.osr_count = 0,
                             !.cycle = sm.cycle + 1 + Fetch.delay]
         /\ sm_obs' = [sm_obs EXCEPT !.word = w, !.trace = <<>>]
    /\ sm_tx' = IF sm_tx # <<>> THEN Tail(sm_tx) ELSE sm_tx
    /\ UNCHANGED << sm_cfg, sm_rx, sm_line >>
    /\ UNCHANGED << relayVars, writerVars, readerVars, spiVars, i2cVars,
                    driverVars, uartVars, frameVars, hwVars, telemVars, gcrVars,
                    erpmVars, timingVars, telemetry_buffer, overflow_checks,
                    r_quiet >>

\* OUT Y: `out y, 16` opens a frame, and the cycle it runs in is taken as
\* the frame's start
S_Out ==
    /\ Fetch.op = "out"
    /\ sm' = [sm EXCEPT !.pc = Succ,
                        !.y = OutBits(sm.osr, sm.osr_count, Fetch.b),
                        !.osr_count = sm.osr_count + Fetch.b,
                        !.cycle = sm.cycle + 1 + Fetch.delay]
    /\ sm_obs' = IF Fetch.b = 16
                 THEN [sm_obs EXCEPT !.starts = Append(@, sm.cycle),
                                     !.waited = Append(@, sm_obs.waiting),
                                     !.waiting = FALSE]
                 ELSE sm_obs
    /\ UNCHANGED << sm_cfg, sm_tx, sm_rx, sm_line >>
    /\ UNCHANGED << relayVars, writerVars, readerVars, spiVars, i2cVars,
                    driverVars, uartVars, frameVars, hwVars, telemVars, gcrVars,
                    erpmVars, timingVars, telemetry_buffer, overflow_checks,
                    r_quiet >>

\* SET PINS, PINDIRS, X or Y
S_Set ==
    /\ Fetch.op = "set"
    /\ sm' = [sm EXCEPT !.pc = Succ,
                        !.pin = IF Fetch.a = "pins" THEN Fetch.b ELSE sm.pin,
                        !.pindir = IF Fetch.a = "pindirs" THEN Fetch.b ELSE sm.pindir,
                        !.x = IF Fetch.a = "x" THEN Fetch.b ELSE sm.x,
                        !.y = IF Fetch.a = "y" THEN Fetch.b ELSE sm.y,
                        !.cycle = sm.cycle + 1 + Fetch.delay]
    /\ sm_obs' =
          CASE Fetch.a = "pins" ->
                  Seen([ev |-> IF Fetch.b = 1 THEN "high" ELSE "low",
                        bit |-> IF sm.y = 0 THEN 0 ELSE 1,
                        cycles |-> 1 + Fetch.delay])
            [] Fetch.a = "pindirs" ->
                  Seen([ev |-> IF Fetch.b = 0 THEN "input" ELSE "output"])
            [] OTHER -> sm_obs
    /\ UNCHANGED << sm_cfg, sm_tx, sm_rx, sm_line >>
    /\ UNCHANGED << relayVars, writerVars, readerVars, spiVars, i2cVars,
                    driverVars, uartVars, frameVars, hwVars, telemVars, gcrVars,
                    erpmVars, timingVars, telemetry_buffer, overflow_checks,
                    r_quiet >>

S_Nop ==
    /\ Fetch.op = "nop"
    /\ sm' = [sm EXCEPT !.pc = Succ, !.cycle = sm.cycle + 1 + Fetch.delay]
    /\ UNCHANGED << sm_cfg, sm_tx, sm_rx, sm_line, sm_obs >>
    /\ UNCHANGED << relayVars, writerVars, readerVars, spiVars, i2cVars,
                    driverVars, uartVars, frameVars, hwVars, telemVars, gcrVars,
                    erpmVars, timingVars, telemetry_buffer, overflow_checks,
                    r_quiet >>

\* WAIT PIN: the sequencer stays here until the line has the level
S_Wait ==
    /\ Fetch.op = "wait"
    /\ sm_line = Fetch.a
    /\ sm' = [sm EXCEPT !.pc = Succ, !.cycle = sm.cycle + 1 + Fetch.delay]
    /\ UNCHANGED << sm_cfg, sm_tx, sm_rx, sm_line, sm_obs >>
    /\ UNCHANGED << relayVars, writerVars, readerVars, spiVars, i2cVars,
                    driverVars, uartVars, frameVars, hwVars, telemVars, gcrVars,
                    erpmVars, timingVars, telemetry_buffer, overflow_checks,
                    r_quiet >>

\* IN PINS, 1: the level the ESC drives in this bit time enters the ISR
S_In ==
    /\ Fetch.op = "in"
    /\ \E level \in {(sm_cfg.answer \div (2 ^ (20 - (sm.isr_count % 21)))) % 2} :
         /\ sm_line' = level
         /\ sm' = [sm EXCEPT !.pc = Succ,
                             !.isr = sm.isr * 2 + level,
                             !.isr_count = sm.isr_count + 1,
                             !.cycle = sm.cycle + 1 + Fetch.delay]
         /\ sm_obs' = Seen([ev |-> "sample", bit |-> level])
    /\ UNCHANGED << sm_cfg, sm_tx, sm_rx >>
    /\ UNCHANGED << relayVars, writerVars, readerVars, spiVars, i2cVars,
                    driverVars, uartVars, frameVars, hwVars, telemVars, gcrVars,
                    erpmVars, timingVars, telemetry_buffer, overflow_checks,
                    r_quiet >>

\* PUSH IfFull Block: nothing below the push threshold, else the ISR goes to
\* the RX FIFO, for which the sequencer waits while it holds 4 words
S_Push ==
    /\ Fetch.op = "push"
    /\ IF Fetch.a /\ sm.isr_count < PushThreshold
       THEN /\ sm' = [sm EXCEPT !.pc = Succ, !.cycle = sm.cycle + 1 + Fetch.delay]
            /\ UNCHANGED << sm_rx, sm_obs >>
       ELSE /\ Len(sm_rx) < 4
            /\ sm_rx' = Append(sm_rx, sm.isr)
            /\ sm' = [sm EXCEPT !.pc = Succ, !.isr = 0, !.isr_count = 0,
                                !.cycle = sm.cycle + 1 + Fetch.delay]
            /\ sm_obs' = Seen([ev |-> "push", word |-> sm.isr])
    /\ UNCHANGED << sm_cfg, sm_tx, sm_line >>
    /\ UNCHANGED << relayVars, writerVars, readerVars, spiVars, i2cVars,
                    driverVars, uartVars, frameVars, hwVars, telemVars, gcrVars,
                    erpmVars, timingVars, telemetry_buffer, overflow_checks,
                    r_quiet >>

\* IRQ 0 rel, neither clearing nor waiting
S_Irq ==
    /\ Fetch.op = "irq"
    /\ sm' = [sm EXCEPT !.pc = Succ, !.irq = TRUE,
                        !.cycle = sm.cycle + 1 + Fetch.delay]
    /\ sm_obs' = Seen([ev |-> "irq"])
    /\ UNCHANGED << sm_cfg, sm_tx, sm_rx, sm_line >>
    /\ UNCHANGED << relayVars, writerVars, readerVars, spiVars, i2cVars,
                    driverVars, uartVars, frameVars, hwVars, telemVars, gcrVars,
                    erpmVars, timingVars, telemetry_buffer, overflow_checks,
                    r_quiet >>

\* the ESC takes the line to the level the sequencer waits for
S_EscDrives ==
    /\ Fetch.op = "wait"
    /\ sm.pindir = 0
    /\ sm_line # Fetch.a
    /\ sm_line' = Fetch.a
    /\ UNCHANGED << sm_cfg, sm, sm_tx, sm_rx, sm_obs >>
    /\ UNCHANGED << relayVars, writerVars, readerVars, spiVars, i2cVars,
                    driverVars, uartVars, frameVars, hwVars, telemVars, gcrVars,
                    erpmVars, timingVars, telemetry_buffer, overflow_checks,
                    r_quiet >>

\* DShotDriver::try_write_command and try_write_throttle: the frame's word
\* goes to the TX FIFO of 4 words when there is room
S_Write ==
    /\ sm_obs.writes < MaxFrames
    /\ Len(sm_tx) < 4
    /\ \E call \in DriverCalls :
         sm_tx' = Append(sm_tx, DriverFrame(sm_cfg.kind, call))
    /\ sm_obs' = [sm_obs EXCEPT
                    !.writes = @ + 1,
                    !.waiting = @ \/ (Fetch.op = "pull" /\ Fetch.b /\ sm_tx = <<>>)]
    /\ UNCHANGED << sm_cfg, sm, sm_rx, sm_line >>
    /\ UNCHANGED << relayVars, writerVars, readerVars, spiVars, i2cVars,
                    driverVars, uartVars, frameVars, hwVars, telemVars, gcrVars,
                    erpmVars, timingVars, telemetry_buffer, overflow_checks,
                    r_quiet >>

(***************************************************************************)
(* main.rs: write_dshot and i2c_task                                       *)
(***************************************************************************)
\* words the host writes over I2C
I2cHostWords ==
    { from_command(0, FALSE), BadHostWord, from_command(0, TRUE),
      from_throttle(80, TRUE) }

\* the first channel, in fan-out order, whose push times out
FirstFailure(T) == {c \in T : \A d \in T : c <= d}

\* for_each_driver! with `return` in the error branch: the channels after
\* the first failing one are not written
main_for_each_driver(frame, T) ==
    [ch \in Channels |-> write_frame(frame, \E c \in T : c <= ch)]

\* main.rs write_dshot up to the fan-out
main_write_dshot(buffer, checks) ==
    LET first_byte == buffer[1]
        raw == from_le_bytes(buffer)
    IN  IF IsCommand(first_byte)
        THEN [panicked |-> FALSE, frame |-> from_command(first_byte, TRUE)]
        ELSE IF raw < 48 /\ checks
        THEN [panicked |-> TRUE, frame |-> NoFrame]
        ELSE IF raw < Sub16(raw, 48)
        THEN [panicked |-> FALSE, frame |-> NoFrame]
        ELSE [panicked |-> FALSE,
              frame |-> from_throttle(raw - Sub16(raw, 48), TRUE)]

I2cCommands == {"Write", "Read", "WriteRead", "GeneralCall", "Err"}

\* one iteration of the loop of i2c_task
I2cListen ==
    /\ i2c_pc = "listen"
    /\ \E cmd \in I2cCommands, word \in I2cHostWords :
         /\ write_buffer' = IF cmd \in {"Write", "WriteRead", "GeneralCall"}
                            THEN to_le_bytes(word) ELSE write_buffer
         /\ IF cmd \in {"Write", "WriteRead"}
            THEN \E result \in {main_write_dshot(to_le_bytes(word), overflow_checks)} :
                 \E T \in (IF result.frame = NoFrame THEN NoTimeouts
                           ELSE FanoutTimeouts) :
                   /\ forwarded' = "yes"
                   /\ tx_pushed' = main_for_each_driver(result.frame, T)
                   /\ tx_timeouts' = FirstFailure(T)
                   /\ i2c_pc' = IF result.panicked THEN "panicked" ELSE "listen"
            ELSE /\ forwarded' = "no"
                 /\ tx_pushed' = NothingPushed
                 /\ tx_timeouts' = {}
                 /\ i2c_pc' = "listen"
         /\ IF cmd = "Read" \/ (cmd = "WriteRead" /\ i2c_pc' = "listen")
            THEN /\ telemetry_buffer' = read(buffers, current)
                 /\ r_quiet' = TRUE
            ELSE /\ telemetry_buffer' = telemetry_buffer
                 /\ r_quiet' = r_quiet
    /\ UNCHANGED << relayVars, writerVars, readerVars, pc, transfer_buffer,
                    telemetry_byte_idx, synced_count, rx_pending, tx_word,
                    match_run, seek_matched, overflow_checks, driverVars,
                    uartVars, frameVars, hwVars,
                    laterVars >>

\* one iteration of the loop of the dshot_telemetry_task of main.rs: the
\* frame read is written to the relay without a checksum test
MainIngest ==
    /\ t_pc = "uart"
    /\ \E f \in UartFrames, ok \in BOOLEAN :
         /\ internal_buf' = f
         /\ IF ~ok
            THEN UNCHANGED << relayVars, last_written, r_quiet >>
            ELSE /\ buffers' = StoreAll(buffers, CopyDestination(current), f)
                 /\ current' = 1 - current
                 /\ last_written' = f
                 /\ r_quiet' = FALSE
    /\ UNCHANGED << readerVars, spiVars, t_pc, crc_state, w_current,
                    w_current_buf, w_dest, w_k, telemetry_buffer,
                    overflow_checks, otherVars >>

(***************************************************************************)
(* Specifications                                                          *)
(***************************************************************************)
\* the firmware: transport on core0, telemetry ingest on core1
Next ==
    \/ T_Ingest
    \/ InitRead
    \/ Seek
    \/ Refresh
    \/ Exchange

Spec == Init /\ [][Next]_vars

\* the relay with write and read interleaved byte by byte
RelayInit ==
    /\ Init
    /\ rx_pending = <<>>
    /\ overflow_checks = FALSE

RelayNext ==
    \/ T_Read
    \/ W_Load
    \/ W_Copy
    \/ W_Store
    \/ R_Load
    \/ R_Copy
    \/ R_Done
    \/ SeekIdle
    \/ RefreshStart
    \/ ExchangeIdle

RelaySpec == RelayInit /\ [][RelayNext]_vars

\* the transport alone, fed encoder-built frames back to back; core0 runs
\* spi_task as its only task, so every enabled step of it is eventually taken
SyncNext ==
    \/ InitRead
    \/ SeekEncoded
    \/ Refresh
    \/ ExchangeEncoded

SyncSpec == Init /\ [][SyncNext]_vars /\ WF_vars(SyncNext)

\* the transport forwarding commands and throttles to the 8 channels
FanoutNext ==
    \/ InitRead
    \/ SeekFanout
    \/ Refresh
    \/ ExchangeFanout

FanoutSpec == Init /\ [][FanoutNext]_vars

\* main.rs: i2c_task as the transport, its own dshot_telemetry_task as ingest
I2cInit ==
    /\ Init
    /\ rx_pending = <<>>

I2cNext ==
    \/ I2cListen
    \/ MainIngest

I2cSpec == I2cInit /\ [][I2cNext]_vars

\* one driver called with throttles while its sequencer drains the FIFO
DriverNext ==
    \/ D_WriteThrottle
    \/ D_TryWriteThrottle
    \/ D_Pull

DriverSpec == I2cInit /\ [][DriverNext]_vars

\* the steady state and its peripherals.  The steps of the firmware and of
\* its timer are fair; nothing obliges the host or the ESC to act.
HardwareNext ==
    \/ H_HostClocks
    \/ H_PushReady
    \/ H_PushTick
    \/ H_PushTimeout
    \/ H_EscSends

HardwareSpec ==
    /\ RelayInit
    /\ [][HardwareNext]_vars
    /\ WF_vars(H_PushReady \/ H_PushTick \/ H_PushTimeout)

\* Frame constructors and accessors on every input in range
FrameInit ==
    /\ FirmwareInit
    /\ rx_pending = <<>>
    /\ overflow_checks = FALSE
    /\ fr_in \in FrameInputs
    /\ fr_called = FALSE
    /\ fr_frame = NoFrame
    /\ fr_decoded = NotDecoded
    /\ DecodersIdle

FrameNext ==
    \/ F_FromThrottle
    \/ F_FromCommand
    \/ F_Decode

FrameSpec == FrameInit /\ [][FrameNext]_vars

\* TelemetryFrame::from_bytes on frames with any tenth byte and on accepted
\* frames with one bit flipped
TelemetryInit ==
    /\ FirmwareInit
    /\ rx_pending = <<>>
    /\ overflow_checks = FALSE
    /\ FrameIdle
    /\ tf_in \in TelemetryInputs
    /\ tf_called = FALSE
    /\ tf_frame = NoTelemetry
    /\ GcrIdle
    /\ ERpmIdle
    /\ TimingIdle
    /\ SequencerIdle

TelemetryNext == TF_FromBytes

TelemetrySpec == TelemetryInit /\ [][TelemetryNext]_vars

\* one capture of the eRPM reader, its channel empty or full
GcrInit ==
    /\ FirmwareInit
    /\ rx_pending = <<>>
    /\ FrameIdle
    /\ TelemetryIdle
    /\ g_value \in CapturedWords
    /\ g_gcr = 0
    /\ g_event = "none"
    /\ g_data = NoValue
    /\ g_channel \in {<<>>, <<0, 0, 0>>}
    /\ ERpmIdle
    /\ TimingIdle
    /\ SequencerIdle

GcrNext == G_Capture

GcrSpec == GcrInit /\ [][GcrNext]_vars

\* eRPM frames read from the channel, and frames of every base and shift
ERpmInit ==
    /\ FirmwareInit
    /\ rx_pending = <<>>
    /\ overflow_checks = FALSE
    /\ FrameIdle
    /\ TelemetryIdle
    /\ g_value = 0
    /\ g_gcr = 0
    /\ g_event = "none"
    /\ g_data = NoValue
    /\ er_in \in ERpmRawInputs \cup ERpmFieldInputs
    /\ g_channel = IF er_in.kind = "raw" THEN <<er_in.raw>> ELSE <<>>
    /\ er_called = FALSE
    /\ er_result = IF er_in.kind = "fields" THEN [ok |-> er_in.frame] ELSE NoResult
    /\ er_computed = NotComputed
    /\ TimingIdle
    /\ SequencerIdle

ERpmNext ==
    \/ E_ReadTelemetry
    \/ E_TryReadTelemetry
    \/ E_Compute

ERpmSpec == ERpmInit /\ [][ERpmNext]_vars

\* the ingest loop of core1.rs on a line it may be out of step with
IngestNext == U_Iterate

IngestSpec == RelayInit /\ [][IngestNext]_vars

\* the timing tables of every speed, clock and update rate, in either build
TimingInit ==
    /\ FirmwareInit
    /\ rx_pending = <<>>
    /\ FrameIdle
    /\ TelemetryIdle
    /\ GcrIdle
    /\ ERpmIdle
    /\ tm_in \in TimingInputs
    /\ tm_called = FALSE
    /\ tm_result = NoResult
    /\ tm_rates = NoResult
    /\ SequencerIdle

TimingNext ==
    \/ T_NewStandard
    \/ T_NewBd
    \/ T_Rates

TimingSpec == TimingInit /\ [][TimingNext]_vars

\* one sequencer from its reset, its driver writing up to MaxFrames frames
SequencerInit ==
    /\ FirmwareInit
    /\ rx_pending = <<>>
    /\ overflow_checks = FALSE
    /\ FrameIdle
    /\ TelemetryIdle
    /\ GcrIdle
    /\ ERpmIdle
    /\ TimingIdle
    /\ sm_cfg \in {c \in SequencerConfigs :
                     /\ c.timings # Panicked
                     /\ c.kind = "standard" =>
                           Encodable(generate_standard_dshot_program(c.timings))
                     /\ c.kind = "bd" =>
                           Encodable(generate_bd_dshot_program(c.timings))}
    /\ sm = [pc |-> 1, x |-> 0, y |-> 0, osr |-> 0, osr_count |-> 32, isr |-> 0,
             isr_count |-> 0, pin |-> 0, pindir |-> 1, irq |-> FALSE, cycle |-> 0]
    /\ sm_tx = <<>>
    /\ sm_rx = <<>>
    /\ sm_line = 1
    /\ sm_obs = [word |-> 0, trace |-> <<>>, starts |-> <<>>, waited |-> <<>>,
                 waiting |-> FALSE, discarded |-> 0, writes |-> 0]

SequencerNext ==
    \/ S_Jmp
    \/ S_Mov
    \/ S_Pull
    \/ S_Out
    \/ S_Set
    \/ S_Nop
    \/ S_Wait
    \/ S_In
    \/ S_Push
    \/ S_Irq
    \/ S_EscDrives
    \/ S_Write

SequencerSpec == SequencerInit /\ [][SequencerNext]_vars

(***************************************************************************)
(* DoubleBuffer (claims C1 to C3), checked under RelaySpec                 *)
(***************************************************************************)
\* a read has returned into spi_task
ReadReturned == r_pc = "idle" /\ pc # "init"

\* C1: after at least one completed write, with no write in progress and no
\* step of write since the read began, a read returns the sample passed to
\* the most recent write.
C1_ReadReturnsLastWritten ==
    (ReadReturned /\ r_quiet /\ t_pc # "w_copy" /\ last_written # NoSample)
        => telemetry_buffer = last_written

\* C2: write copies the sample into the shared slot that is not published,
\* then publishes that slot; the published index is always 0 or 1.
C2_WriteFillsUnpublishedSlot ==
    /\ current \in {0, 1}
    /\ (t_pc = "w_copy" => w_dest = {1 - w_current})
    /\ (t_pc # "w_copy" /\ last_written # NoSample
            => buffers[current] = last_written)

\* C3: under every interleaving of the steps of write and read, the 10 bytes
\* a read returns are one whole sample (the initial zeros or a sample passed
\* to write), and the slot a read returns is not the one being written.
C3_NoTornRead ==
    /\ (ReadReturned => telemetry_buffer \in ({ZeroBuf} \cup Samples))
    /\ (r_pc = "copy" /\ t_pc = "w_copy" => r_current \notin w_dest)

\* a read returned while a write was half way through its copy
C3_Witness ==
    /\ ReadReturned
    /\ ~r_quiet
    /\ telemetry_byte_idx = 0
    /\ t_pc = "w_copy"
    /\ w_k \in 1..(BUF_LEN - 1)
    /\ internal_buf \in Samples

(***************************************************************************)
(* Host transport while seeking (claims C4 to C8)                          *)
(***************************************************************************)
\* C4: the third consecutive matching window ends the seeking loop, so the
\* task is never still seeking once three windows in a row have matched.
C4_SyncedOnThirdMatch ==
    ~(pc = "seeking" /\ match_run >= SYNC_THRESHOLD)

\* C5: SYNCED is entered only after at least SYNC_THRESHOLD consecutive
\* matching windows, the match count never exceeds the current run of
\* matches, and a mismatching window leaves the match count at 0.
C5_NoSpuriousSync ==
    /\ (SYNCED => match_run >= SYNC_THRESHOLD)
    /\ synced_count <= match_run
    /\ (pc = "seeking" /\ ~seek_matched => synced_count = 0)

\* SYNCED has just been entered from a stream the transport reads one byte
\* out of step with the host's frames
C5_Witness ==
    /\ pc = "exchange"
    /\ forwarded = "none"
    /\ match_run >= SYNC_THRESHOLD
    /\ rx_pending # <<>>

\* C6: a mismatching window while seeking takes one more byte off the host
\* stream (the alignment of the next window shifts by one) and resets the
\* match count to 0.
C6_MismatchDiscardsOneByte ==
    [][ (Seek /\ ~seek_matched')
            => (Len(rx_pending') # Len(rx_pending) /\ synced_count' = 0) ]_vars

\* C7: while seeking, a window matches iff the checksum computed over the
\* received little-endian 16-bit value equals the low nibble of that value.
C7_SeekMatchFromReceivedBytes ==
    [][ Seek => (seek_matched' <=>
                    compute_standard_crc(from_le_bytes(transfer_buffer'))
                        = Low4(from_le_bytes(transfer_buffer'))) ]_vars

\* C8: with the host sending encoder-built frames back to back, from either
\* byte alignment, spi_task eventually reaches SYNCED.
C8_EventuallySynced == <>SYNCED

(***************************************************************************)
(* Host transport once SYNCED (claims C9 and C10)                          *)
(***************************************************************************)
\* C9: an exchanged word is forwarded to write_dshot iff the checksum of its
\* top 12 bits, computed as construct_frame computes it, equals its low
\* nibble; every word built by from_throttle or from_command is forwarded.
C9_ForwardedIffChecksumValid ==
    forwarded # "none" =>
        /\ (forwarded = "yes" <=>
                compute_standard_crc(ClearLow4(from_le_bytes(transfer_buffer)))
                    = Low4(from_le_bytes(transfer_buffer)))
        /\ (from_le_bytes(transfer_buffer) \in EncodedHostFrames
                => forwarded = "yes")

\* C10: once SYNCED the task stays in the exchange loop for ever, and an
\* exchange whose checksum mismatches pushes nothing on any channel and
\* still advances the telemetry word index by 2.
C10_MismatchKeepsSync ==
    [][ /\ (pc \in {"exchange", "refresh"} => pc' \in {"exchange", "refresh"})
        /\ (Exchange /\ forwarded' = "no"
                => /\ tx_pushed' = NothingPushed
                   /\ telemetry_byte_idx' = telemetry_byte_idx + 2) ]_vars

BuiltFrame == write_dshot(transfer_buffer, overflow_checks).frame

\* C12: a forwarded word whose first byte is a command code has that command
\* pushed; any other forwarded word is a throttle, and a word that differs
\* from the throttle word from_throttle(80, TRUE) has a frame pushed that
\* differs from the one pushed for that word.
C12_ThrottleFollowsPayload ==
    (forwarded = "yes" /\ pc = "exchange") =>
        \A ch \in Channels \ tx_timeouts :
            IF IsCommand(transfer_buffer[1])
            THEN tx_pushed[ch] = from_command(transfer_buffer[1], TRUE)
            ELSE from_le_bytes(transfer_buffer) # from_throttle(80, TRUE)
                    => tx_pushed[ch] #
                         write_dshot(to_le_bytes(from_throttle(80, TRUE)),
                                     overflow_checks).frame

\* C13: whichever channels time out, every other channel has the frame
\* pushed, on the command path and on the throttle path; with no timeout
\* all 8 channels hold one and the same frame.
C13_TimeoutSkipsOnlyThatChannel ==
    (forwarded = "yes" /\ pc = "exchange" /\ BuiltFrame # NoFrame) =>
        /\ \A ch \in Channels :
              tx_pushed[ch] = IF ch \in tx_timeouts THEN NoFrame ELSE BuiltFrame
        /\ (tx_timeouts = {} =>
              \A ch \in Channels : tx_pushed[ch] = tx_pushed[1] /\ tx_pushed[ch] # NoFrame)

\* a throttle was fanned out, channel 3 timed out and channels 4 to 8 were
\* still written
C13_Witness ==
    /\ forwarded = "yes"
    /\ pc = "exchange"
    /\ ~IsCommand(transfer_buffer[1])
    /\ tx_timeouts = {3}
    /\ \A ch \in 4..NUM_CHANNELS : tx_pushed[ch] = from_throttle(48, TRUE)

(***************************************************************************)
(* main.rs fan-out and i2c_task (claims C14 and C16), checked under I2cSpec *)
(***************************************************************************)
\* the frame the write_dshot of main.rs builds for the last written word
MainBuiltFrame == main_write_dshot(write_buffer, overflow_checks).frame

\* C14: in the fan-out of main.rs a channel whose push timed out is
\* skipped and every channel whose push did not time out, those after it
\* included, has the frame pushed.
C14_MainTimeoutSkipsOnlyThatChannel ==
    (forwarded = "yes" /\ i2c_pc = "listen" /\ MainBuiltFrame # NoFrame) =>
        \A ch \in Channels \ tx_timeouts : tx_pushed[ch] = MainBuiltFrame

\* C16: i2c_task pushes a frame on a channel only for a written word that
\* passes the checksum comparison spi_task makes on an exchanged word.
C16_I2cForwardsOnlyValidChecksum ==
    (forwarded = "yes" /\ i2c_pc = "listen"
        /\ \E ch \in Channels : tx_pushed[ch] # NoFrame) =>
            compute_standard_crc(from_le_bytes(write_buffer))
                = ExchangeReceivedCrc(write_buffer)

(***************************************************************************)
(* Throttle conversion (claim C17)                                         *)
(***************************************************************************)
\* C17: no exchanged word that passes the checksum comparison makes
\* write_dshot overflow in `raw - 48`: spi_task never halts in a panic, and
\* a forwarded word that is no command is at least 48.
C17_NoOverflowInConversion ==
    /\ pc # "panicked"
    /\ (forwarded = "yes" /\ pc = "exchange" /\ ~IsCommand(transfer_buffer[1])
            => from_le_bytes(transfer_buffer) >= 48)

(***************************************************************************)
(* Range errors (claim C15), checked under DriverSpec                      *)
(***************************************************************************)
\* C15: write_throttle and try_write_throttle called with a throttle of 2000
\* or more return ThrottleBoundsError carrying that throttle and leave the
\* sequencer's queue as it was; a throttle below 2000 never gets that
\* error; a fan-out of an out-of-range throttle pushes nothing.
C15_RangeErrorLeavesQueue ==
    /\ d_call.fn \in {"write_throttle", "try_write_throttle"} =>
          IF d_call.throttle >= 2000
          THEN /\ d_result = <<"ThrottleBoundsError", d_call.throttle>>
               /\ d_queue = d_before
          ELSE d_result[1] # "ThrottleBoundsError"
    /\ \A throttle \in ThrottleInputs :
          throttle >= 2000 =>
              for_each_driver(from_throttle(throttle, TRUE), {}) = NothingPushed

\* try_write_throttle(2000, ..) was refused with frames waiting in the queue
C15_Witness ==
    /\ d_call.fn = "try_write_throttle"
    /\ d_call.throttle = 2000
    /\ d_result = <<"ThrottleBoundsError", 2000>>
    /\ Len(d_queue) = 1

(***************************************************************************)
(* Telemetry ingest (claim C19), checked under IngestSpec                  *)
(***************************************************************************)
\* every 10 bytes in a row that the line can carry
LineWindows ==
    {ReadBytes(f, k, g, BUF_LEN) :
        f \in TransportUartFrames, g \in TransportUartFrames, k \in 0..(BUF_LEN - 1)}

\* those of them whose byte 9 is the CRC-8 of bytes 0..8
CheckedWindows ==
    {w \in LineWindows : w[BUF_LEN] = telemetry_compute_crc(SubSeq(w, 1, BUF_LEN - 1))}

\* C19: an iteration of the ingest loop of core1.rs publishes to the relay
\* only when its 10-byte read succeeded and the CRC-8 of bytes 0..8 equals
\* byte 9, and then it publishes the bytes read; after a read error or a
\* mismatch the relay is as before; after a mismatch whose one-byte read
\* succeeded 11 bytes have left the line, which moves the alignment by one
\* byte; the task stays in its loop.
C19_PublishOnlyCheckedFrames ==
    [][ /\ (current' # current \/ buffers' # buffers \/ last_written' # last_written)
            => /\ u_iter'.outcome # "read_error"
               /\ internal_buf' \in CheckedWindows
               /\ last_written' = internal_buf'
        /\ (u_iter'.outcome = "read_error" \/ internal_buf' \notin CheckedWindows)
            => UNCHANGED << buffers, current, last_written >>
        /\ (/\ u_iter'.outcome # "read_error"
            /\ internal_buf' \notin CheckedWindows
            /\ u_iter'.drop = "ok")
            => /\ u_iter'.consumed = BUF_LEN + 1
               /\ uart_skew' = (uart_skew + 1) % BUF_LEN
        /\ t_pc' = "uart"
      ]_vars

\* out of step with the line, the task read a frame that failed the test,
\* dropped one byte and is in step again, after an earlier publication
C19_Witness ==
    /\ u_iter.outcome = "mismatch"
    /\ u_iter.drop = "ok"
    /\ internal_buf \in LineWindows \ CheckedWindows
    /\ internal_buf # CorruptFrame
    /\ uart_skew = 0
    /\ last_written \in Samples

(***************************************************************************)
(* Frame round trip (claim C20), checked under FrameSpec                   *)
(***************************************************************************)
\* C20: for both checksum polarities and both values of the flag t,
\* from_throttle(v, t) with v in 0..1999 is a frame whose speed() is v,
\* whose telemetry_enabled() is t and whose bits 15..5 are v + 48;
\* from_command(c, t) is a frame whose bits 15..5 are the code of c, whose
\* telemetry_enabled() is t and whose speed() is None.
C20_FrameRoundTrip ==
    /\ (fr_in.fn = "from_throttle" /\ fr_in.arg <= 1999 /\ fr_decoded.called) =>
          /\ fr_decoded.speed = fr_in.arg
          /\ fr_decoded.telemetry_enabled = fr_in.request_telemetry
          /\ fr_frame \div 32 = fr_in.arg + 48
    /\ (fr_in.fn = "from_command" /\ fr_decoded.called) =>
          /\ fr_decoded.speed = NoSpeed
          /\ fr_decoded.telemetry_enabled = fr_in.request_telemetry
          /\ fr_frame \div 32 = fr_in.arg
    /\ (fr_in.fn = "from_throttle" /\ fr_in.arg <= 1999) =>
          Frame_from_throttle(fr_in.is_inverted, fr_in.arg,
                              fr_in.request_telemetry) # NoFrame

\* the largest throttle, inverted polarity, telemetry requested, read back
C20_Witness ==
    /\ fr_in = [fn |-> "from_throttle", arg |-> 1999,
                request_telemetry |-> TRUE, is_inverted |-> TRUE]
    /\ fr_decoded.called
    /\ fr_decoded.speed = 1999
    /\ fr_frame = 65535

(***************************************************************************)
(* Bounded hardware waits (claim C18), checked under HardwareSpec          *)
(***************************************************************************)
\* C18: in steady state every iteration of the synced loop of spi_task and
\* every iteration of the ingest loop is followed by a next one, whatever
\* the peripherals do.
C18_EveryIterationEnds ==
    /\ \A b \in 0..1 : (hw_turn = b) ~> (hw_turn # b)
    /\ \A b \in 0..1 : (hw_uart_turn = b) ~> (hw_uart_turn # b)

(***************************************************************************)
(* Out-of-range throttles (claim C21), checked under FrameSpec             *)
(***************************************************************************)
\* C21: for both checksum polarities and both values of the flag,
\* from_throttle(v, t) with v >= 2000 returns None: no frame is built, so
\* no payload wrapped to 16 bits either.
C21_OutOfRangeIsNone ==
    (fr_in.fn = "from_throttle" /\ fr_in.arg >= 2000 /\ fr_called) =>
        /\ fr_frame = NoFrame
        /\ fr_decoded = NotDecoded

\* the largest u16, for which throttle + 48 would wrap, was refused
C21_Witness ==
    /\ fr_in = [fn |-> "from_throttle", arg |-> 65535,
                request_telemetry |-> TRUE, is_inverted |-> TRUE]
    /\ fr_called
    /\ fr_frame = NoFrame

C23_ChecksumIsXorOfTopNibbles ==
    (fr_called /\ fr_frame # NoFrame) =>
        LET nibble(i) == (fr_frame \div (16 ^ i)) % 16
            xored == BitXor(BitXor(nibble(3), nibble(2)), nibble(1))
        IN  fr_frame % 16 = IF fr_in.is_inverted THEN 15 - xored ELSE xored

(***************************************************************************)
(* Serial telemetry decoding (claims C24 and C25), under TelemetrySpec     *)
(***************************************************************************)
\* C24: from_bytes returns a frame exactly when byte 9 is the CRC-8
\* (polynomial 0x07, most significant bit first, initial value 0) of bytes
\* 0..8, and the frame then has temp = b[0], voltage = b[1] | b[2] << 8,
\* current = b[3] | b[4] << 8, consumption = b[5] | b[6] << 8,
\* e_rpm = b[7] | b[8] << 8 and crc = b[9].  The CRC-8 of "123456789" with
\* these parameters is 0xF4.
C24_TelemetryRoundTrip ==
    /\ tf_called =>
          LET b == tf_in.bytes
          IN  IF b[10] = telemetry_compute_crc(SubSeq(b, 1, 9))
              THEN tf_frame = [temp |-> b[1],
                               voltage |-> b[2] + 256 * b[3],
                               current |-> b[4] + 256 * b[5],
                               consumption |-> b[6] + 256 * b[7],
                               e_rpm |-> b[8] + 256 * b[9],
                               crc |-> b[10]]
              ELSE tf_frame = NoTelemetry
    /\ telemetry_compute_crc(<<49, 50, 51, 52, 53, 54, 55, 56, 57>>) = 244

\* a frame with its own checksum was decoded; the two bytes of its voltage
\* differ and the high one is not zero
C24_Witness ==
    /\ tf_called
    /\ tf_in.origin = "any"
    /\ tf_frame # NoTelemetry
    /\ tf_frame.voltage = tf_in.bytes[2] + 256 * tf_in.bytes[3]
    /\ tf_in.bytes[3] # 0
    /\ tf_in.bytes[2] # tf_in.bytes[3]

\* C25: a frame from_bytes accepts is refused once any single bit of its 10
\* bytes is flipped and the checksum left as it was.
C25_SingleBitFlipRejected ==
    (tf_in.origin = "flipped" /\ tf_called) =>
        /\ from_bytes(tf_in.base) # NoTelemetry
        /\ tf_frame = NoTelemetry

\* a frame with a bit of its checksum byte flipped was refused
C25_Witness ==
    /\ tf_in.origin = "flipped"
    /\ tf_in.bit >= 72
    /\ tf_called
    /\ tf_frame = NoTelemetry
    /\ tf_in.bytes # tf_in.base

(***************************************************************************)
(* GCR decoding (claims C26 and C27), checked under GcrSpec                *)
(***************************************************************************)
\* C26: when any 5-bit symbol of the de-interleaved word is a reserved
\* pattern, in whichever position, decode_gcr returns None and the reader
\* sends nothing on the telemetry channel for that capture.
C26_ReservedSymbolRejectsFrame ==
    (/\ g_event \notin {"none", "irq_timeout", "pull_failed"}
     /\ \E i \in 0..4 : GCR_DECODING_MAP[((g_gcr \div (32 ^ i)) % 32) + 1] = NoValue)
        => /\ g_event = "decode_failed"
           /\ g_data = NoValue
           /\ g_channel \in {<<>>, <<0, 0, 0>>}

\* C27: for a de-interleaved 20-bit word of four valid symbols s3 s2 s1 s0,
\* s0 in bits 4..0, decode_gcr returns the value whose nibble i is the table
\* value of s_i, and no shift goes beyond the 16 bits of the result.
C27_DecodeAssemblesNibbles ==
    (/\ g_event \notin {"none", "irq_timeout", "pull_failed"}
     /\ g_gcr < 2 ^ 20
     /\ \A i \in 0..3 : GCR_DECODING_MAP[((g_gcr \div (32 ^ i)) % 32) + 1] # NoValue)
        => /\ g_event # "panicked"
           /\ g_data = GCR_DECODING_MAP[(g_gcr % 32) + 1]
                       + 16 * GCR_DECODING_MAP[((g_gcr \div 32) % 32) + 1]
                       + 256 * GCR_DECODING_MAP[((g_gcr \div 1024) % 32) + 1]
                       + 4096 * GCR_DECODING_MAP[((g_gcr \div 32768) % 32) + 1]

(***************************************************************************)
(* eRPM frames (claims C28, C29 and C30), checked under ERpmSpec           *)
(***************************************************************************)
\* C28: from_raw of either variant returns a frame exactly when the low 4
\* bits of the value are the XOR of the three nibbles of its upper 12 bits,
\* and read_telemetry and try_read_telemerty report
\* InvalidTelemetryChecksum for every other value.
C28_ERpmChecksumValidated ==
    (er_in.kind = "raw" /\ er_called) =>
        LET nibble(i) == (er_in.raw \div (16 ^ i)) % 16
            valid == nibble(0) = BitXor(BitXor(nibble(3), nibble(2)), nibble(1))
        IN  IF valid THEN "ok" \in DOMAIN er_result
            ELSE er_result = [err |-> "InvalidTelemetryChecksum"]

\* C29: shift() and base() of a standard frame are bits 15..13 and bits
\* 12..4 of the 16-bit value; the type tag of an extended frame is bits
\* 15..12 and its payload bits 11..4.
C29_ERpmFieldLayout ==
    (er_in.kind = "raw" /\ er_called /\ "ok" \in DOMAIN er_result) =>
        IF er_in.variant = "standard"
        THEN /\ er_result.ok.shift = er_in.raw \div 8192
             /\ er_result.ok.base = (er_in.raw \div 16) % 512
             /\ er_computed.called =>
                   /\ er_computed.shift = er_in.raw \div 8192
                   /\ er_computed.base = (er_in.raw \div 16) % 512
        ELSE er_result.ok.data.type # "Rpm" =>
                /\ er_result.ok.data.type = ExtendedTypes[er_in.raw \div 4096]
                /\ er_result.ok.data.data = (er_in.raw \div 16) % 256

C32_NegativeDelayRejected ==
    (tm_called /\ tm_in.fn \in {"StandardDShotTimings::new", "BdDShotTimings::new"}) =>
        LET bit_period == tm_in.pio_clock \div bit_rate_hz(tm_in.dshot_speed)
            gcr_bit_period == tm_in.pio_clock \div gcr_bit_rate_hz(tm_in.dshot_speed)
            frame_period == tm_in.pio_clock \div tm_in.update_rate
            one_high == (bit_period * 3) \div 5
            zero_high == (bit_period * 3) \div 10
            total == IF tm_in.fn = "StandardDShotTimings::new"
                     THEN frame_period - bit_period * 16 - 1
                     ELSE frame_period - bit_period * 16 - gcr_bit_period * 21 - 8
            negative == \/ one_high - 1 < 0
                        \/ zero_high - 1 < 0
                        \/ bit_period - one_high - 5 < 0
                        \/ bit_period - zero_high - 5 < 0
                        \/ total < 0
                        \/ (total % 32) - 7 < 0
        IN  negative => tm_result = Panicked

\* C33: for every bit_period for which no bit delay is negative the table
\* holds floor(3*bit_period/5) - 1 and floor(3*bit_period/10) - 1 as high
\* delays and the rest of the period minus 5 as low delays, so that for both
\* symbols high_delay + low_delay + 6 = bit_period.
C33_SymbolTiming ==
    (/\ tm_called
     /\ tm_in.fn \in {"StandardDShotTimings::new", "BdDShotTimings::new"}
     /\ tm_result # Panicked) =>
        LET bit_period == tm_in.pio_clock \div bit_rate_hz(tm_in.dshot_speed)
            one_high == (bit_period * 3) \div 5
            zero_high == (bit_period * 3) \div 10
            b == tm_result.bit_timings
        IN  (/\ one_high - 1 >= 0
             /\ zero_high - 1 >= 0
             /\ bit_period - one_high - 5 >= 0
             /\ bit_period - zero_high - 5 >= 0) =>
                /\ b.one_high_delay = one_high - 1
                /\ b.zero_high_delay = zero_high - 1
                /\ b.one_low_delay = bit_period - one_high - 5
                /\ b.zero_low_delay = bit_period - zero_high - 5
                /\ b.one_high_delay + b.one_low_delay + 6 = bit_period
                /\ b.zero_high_delay + b.zero_low_delay + 6 = bit_period

\* C35: for every DShotSpeed the GCR bit rate is 5/4 of the normal bit rate:
\* gcr_bit_rate_hz() * 4 = bit_rate_hz() * 5.
C35_GcrRateRatio ==
    (tm_in.fn = "rates" /\ tm_called) =>
        tm_rates.gcr_rate * 4 = tm_rates.normal_rate * 5

\* the two rates of DShot1200
C35_Witness ==
    /\ tm_in = [fn |-> "rates", dshot_speed |-> "DShot1200"]
    /\ tm_called
    /\ tm_rates = [normal_rate |-> 1200000, gcr_rate |-> 1500000]

(***************************************************************************)
(* Sequencer programs (claims C31, C34, C39, C40), checked under           *)
(* SequencerSpec                                                           *)
(***************************************************************************)
\* C31: for DShot300 at 8,000,000 Hz and 8,000 Hz the bit period is 26
\* cycles, and the transmit-only program takes clock / update_rate = 1000
\* cycles from the start of one frame to the start of the next when it did
\* not have to wait for the second frame.
C31_FramePeriod ==
    (/\ sm_cfg.kind = "standard"
     /\ sm_cfg.dshot_speed = "DShot300"
     /\ Len(sm_obs.starts) >= 2
     /\ ~sm_obs.waited[2]) =>
        /\ sm_cfg.pio_clock \div bit_rate_hz(sm_cfg.dshot_speed) = 26
        /\ sm_obs.starts[2] - sm_obs.starts[1] =
              sm_cfg.pio_clock \div sm_cfg.update_rate

C39_NoFrameDiscarded ==
    /\ \A i \in 1..Len(sm_tx) : sm_tx[i] # 0
    /\ sm_obs.discarded = 0

\* C40: a frame enqueued through the bidirectional driver carries the
\* inverted checksum, one enqueued through the standard driver the standard
\* checksum.
C40_PolarityFollowsDriver ==
    \A i \in 1..Len(sm_tx) :
        Low4(sm_tx[i]) = Frame_compute_crc(sm_cfg.kind = "bd", ClearLow4(sm_tx[i]))

(***************************************************************************)
(* GCR decoding table (claim C36), checked under GcrSpec                   *)
(***************************************************************************)
\* the 5-bit patterns the table holds None for
ReservedPatterns == {i \in 0..31 : GCR_DECODING_MAP[i + 1] = NoValue}

\* the symbol decode_gcr reads in iteration `shift` of its loop
SymbolAt(gcr, shift) == (gcr \div (32 ^ shift)) % 32

HostFrame == from_le_bytes(transfer_buffer)

\* C37: every frame pushed on a channel for a forwarded host frame has the
\* telemetry-request flag equal to bit 4 of that host frame.
C37_TelemetryFlagFollowsHost ==
    (forwarded = "yes" /\ pc = "exchange") =>
        \A ch \in Channels :
            tx_pushed[ch] # NoFrame =>
                telemetry_enabled(tx_pushed[ch]) = telemetry_enabled(HostFrame)

\* the frames a broadcast of `command` pushes, with either flag
CommandFrames(command) == {from_command(command, t) : t \in BOOLEAN}

\* C38: a forwarded host frame whose payload (bits 15..5) is 48 or more has
\* no command frame pushed on any channel, and one whose payload is a
\* command code has the frame of exactly that command pushed.
C38_ClassifiedByPayload ==
    (forwarded = "yes" /\ pc = "exchange") =>
        \A ch \in Channels :
            tx_pushed[ch] # NoFrame =>
                IF Shr(HostFrame, 5) >= 48
                THEN \A c \in CommandCodes : tx_pushed[ch] \notin CommandFrames(c)
                ELSE Shr(HostFrame, 5) \in CommandCodes
                        => tx_pushed[ch] \in CommandFrames(Shr(HostFrame, 5))

====
